---- MODULE Spec2Model ----
(***************************************************************************)
(* A model of the MidOS MCP knowledge server: the request gate of          *)
(* modules/mcp_server/auth.py (key store, key cache, tier gating, monthly  *)
(* quota ledger with debounced flush) and the vector store of              *)
(* hive_commons/vector_store.py (add, search with its query-result cache,  *)
(* batch_rescore_decay, get_embeddings_batch).                             *)
(***************************************************************************)
EXTENDS Integers, Sequences, FiniteSets, TLC

VARIABLES
    keys_file,      \* config/api_keys.json: key string -> [tier, active]
    usage_file,     \* config/api_usage.json: identifier -> [month, count]
    keys_cache,     \* ApiKeyMiddleware._keys_cache (loaded = FALSE models None)
    cache_age,      \* time.time() - self._cache_time, in seconds, saturated
    usage_mem,      \* ApiKeyMiddleware._usage_mem: identifier -> count
    usage_month,    \* ApiKeyMiddleware._usage_month
    flush_age,      \* time.time() - self._usage_flush_time, saturated
    month,          \* _current_month(), as a month index
    last,           \* the latest request the middleware handled and its outcome
    revoked,        \* history: keys for which revoke_key has returned True
    hist            \* history: per identifier, this month's check_and_increment calls

gateVars == <<keys_file, usage_file, keys_cache, cache_age, usage_mem,
              usage_month, flush_age, month, last, revoked, hist>>

VARIABLES
    table,          \* the LanceDB table of the store: [exists, rows]
    query_cache,    \* VectorStore._query_cache: fingerprint -> [age, results]
    rescore,        \* position of a running batch_rescore_decay and its dataframe
    added,          \* history: texts for which add has returned True
    found           \* the latest search or count and what it returned

storeVars == <<table, query_cache, rescore, added, found>>

VARIABLES
    embedding_cache,  \* vector_store._embedding_cache, as the set of texts it holds
    embed             \* the running or latest get_embeddings_batch call

embedVars == <<embedding_cache, embed>>

VARIABLES
    key_ops,        \* the generate_key / revoke_key calls between their read
                    \* and their write of api_keys.json, per calling process
    generated       \* history: keys those generate_key calls have returned

keyOpVars == <<key_ops, generated>>

VARIABLES
    reply,          \* what the latest tools/call with a modelled handler returned
    inbox,          \* synapse/inbox: second of the file name -> the command's url
    clock           \* int(time.time()), in seconds since the server started

toolVars == <<reply, inbox, clock>>

VARIABLES
    shake_in,       \* agent_handshake's arguments and the files it reads
    shake           \* how far the handshake got: its config, its rendered text

shakeVars == <<shake_in, shake>>

VARIABLES
    resolving       \* a call of resolve_model or resolve_client: its step, its result

nameVars == <<resolving>>

VARIABLES
    chunk_op,       \* the latest refresh_chunk or archive_chunk call and its outcome
    archive_log,    \* archived_chunks.jsonl, as the texts whose record it holds
    archived        \* history: texts whose decay_score archive_chunk set to -1.0

chunkVars == <<chunk_op, archive_log, archived>>

VARIABLES
    query_embedding_cache,  \* _QUERY_EMBEDDING_CACHE, in insertion order: [text, ts]
    now,                    \* time.time(), in seconds since the process started
    query_embedding,        \* the latest get_query_embedding call and its outcome
    served                  \* history: per text, when the cache last took or served it

queryVars == <<query_embedding_cache, now, query_embedding, served>>

VARIABLES
    mission_failures,     \* CircuitBreaker.state["mission_failures"]
    blocked_missions,     \* CircuitBreaker.state["blocked_missions"]
    phoenix_activations,  \* CircuitBreaker.state["phoenix_activations"]
    recorded,             \* the latest record_failure or record_success call
    streak,               \* history: per mission, failures since its last success
    since                 \* history: per mission, failures since its last success,
                          \* its last block or the last Phoenix reset

breakerVars == <<mission_failures, blocked_missions, phoenix_activations,
                 recorded, streak, since>>

VARIABLES
    lance,              \* the LanceDB database: per table name, the table
    class_query_cache,  \* VectorStore._query_cache, the attribute of the class
    answered            \* the latest search of a VectorStore and what it returned

twinVars == <<lance, class_query_cache, answered>>

vars == <<gateVars, storeVars, embedVars, keyOpVars, toolVars, shakeVars, nameVars, chunkVars, queryVars, breakerVars, twinVars>>

\* what an action of one part of the program leaves alone
notGateVars == <<storeVars, embedVars, keyOpVars, toolVars, shakeVars, nameVars, chunkVars, queryVars, breakerVars, twinVars>>
notStoreVars == <<gateVars, embedVars, keyOpVars, toolVars, shakeVars, nameVars, chunkVars, queryVars, breakerVars, twinVars>>
notEmbedVars == <<gateVars, storeVars, keyOpVars, toolVars, shakeVars, nameVars, chunkVars, queryVars, breakerVars, twinVars>>
notToolVars == <<storeVars, embedVars, keyOpVars, shakeVars, nameVars, chunkVars, queryVars, breakerVars, twinVars>>
notShakeVars == <<gateVars, storeVars, embedVars, keyOpVars, toolVars, nameVars, chunkVars, queryVars, breakerVars, twinVars>>
notNameVars == <<gateVars, storeVars, embedVars, keyOpVars, toolVars, shakeVars, chunkVars, queryVars, breakerVars, twinVars>>
notStoreChunkVars == <<gateVars, embedVars, keyOpVars, toolVars, shakeVars, nameVars, queryVars, breakerVars, twinVars>>
notQueryVars == <<gateVars, storeVars, embedVars, keyOpVars, toolVars, shakeVars, nameVars, chunkVars, breakerVars, twinVars>>
notBreakerVars == <<gateVars, storeVars, embedVars, keyOpVars, toolVars, shakeVars, nameVars, chunkVars, queryVars, twinVars>>
notTwinVars == <<gateVars, storeVars, embedVars, keyOpVars, toolVars, shakeVars, nameVars, chunkVars, queryVars, breakerVars>>

None == "none"

Min(a, b) == IF a < b THEN a ELSE b

EmptyMap == [x \in {} |-> 0]

\* dict[key] = value
Put(f, k, v) == [x \in DOMAIN f \cup {k} |-> IF x = k THEN v ELSE f[x]]

(***************************************************************************)
(* auth.py: tier definitions                                               *)
(***************************************************************************)

FREE_TOOLS ==
    {"search_knowledge", "list_skills", "hive_status", "project_status",
     "pool_status", "get_eureka", "get_truth"}

\* the tools midos_mcp.py registers with @mcp.tool
RegisteredTools ==
    {"search_knowledge", "get_skill", "list_skills", "get_protocol",
     "get_eureka", "get_truth", "hive_status", "semantic_search",
     "research_youtube", "memory_stats", "pool_signal", "pool_status",
     "episodic_search", "episodic_store", "chunk_code", "agent_handshake",
     "project_status", "agent_bootstrap"}

\* the tier sets the end-to-end tests expect
COMMUNITY_TOOLS ==
    {"search_knowledge", "list_skills", "hive_status", "project_status",
     "agent_handshake", "agent_bootstrap", "get_skill", "get_protocol"}

PRO_TOOLS ==
    {"get_eureka", "get_truth", "semantic_search", "research_youtube",
     "chunk_code", "memory_stats", "pool_status", "episodic_search"}

ADMIN_TOOLS == {"episodic_store", "pool_signal"}

\* queries_per_month of each tier, scaled down (the code has 100, 5000,
\* 25000 and 100000) so that a month's quota can be used up within the model
LimitFree == 1
LimitDev == 2
LimitPro == 3
LimitTeam == 4

TIER_LIMITS ==
    [free |-> LimitFree, dev |-> LimitDev, pro |-> LimitPro, team |-> LimitTeam]

TierNames == DOMAIN TIER_LIMITS

\* "if tier not in TIER_LIMITS" of generate_key
TIER_LIMITS_KEYS == DOMAIN TIER_LIMITS

\* TIER_LIMITS.get(tier, TIER_LIMITS["free"])["queries_per_month"]
QueriesPerMonth(tier) ==
    IF tier \in DOMAIN TIER_LIMITS THEN TIER_LIMITS[tier] ELSE TIER_LIMITS["free"]

\* the reload period of the key cache and the flush period of the ledger (s)
CACHE_TTL == 60
FLUSH_INTERVAL == 30

\* the last month index the model's clock reaches
MaxMonth == 1

(***************************************************************************)
(* Requests.  A header value is kept in the shape the code takes it apart: *)
(* x-forwarded-for as its comma-separated entries, host as its             *)
(* colon-separated parts, authorization as the parts of split(" ", 1).     *)
(* An absent header is the empty sequence (the empty string for x-real-ip).*)
(***************************************************************************)

\* the keys secrets.token_hex can produce in the model, a well-formed key
\* that was never generated, an over-long well-formed token, and a token
\* without the prefix
KeyPool == {"midos_sk_a1"}
UnknownKey == "midos_sk_ffff"
LongToken == "midos_sk_pro_AAAA..x200"
RandomToken == "random_token_12345"

\* len(token)
TokenLen(t) ==
    IF t = LongToken THEN 213 ELSE IF t = RandomToken THEN 18 ELSE 57

\* token.startswith("midos_sk_")
StartsWithMidosSk(t) == t \in KeyPool \cup {UnknownKey, LongToken}

\* str.lower() on the scheme word
Lower(s) ==
    CASE s \in {"Bearer", "bearer", "BEARER"} -> "bearer"
      [] s = "Basic" -> "basic"
      [] s = "RAG_SYSTEMS" -> "rag_systems"
      [] s = "HTTPS" -> "https"
      [] s = "YouTube.com" -> "youtube.com"
      [] s = "GPT-4o" -> "gpt-4o"
      [] OTHER -> s

local_addrs == {"127.0.0.1", "::1", "localhost"}

\* ApiKeyMiddleware._is_localhost
IsLocalhost(h) ==
    LET forwarded == IF h.xff = <<>> THEN "" ELSE Head(h.xff)
        real_ip == h.real_ip
        host_name == IF h.host = <<>> THEN "" ELSE Head(h.host)
    IN  \/ forwarded # "" /\ forwarded \in local_addrs
        \/ real_ip # "" /\ real_ip \in local_addrs
        \/ host_name \in local_addrs

\* the token of "Bearer midos_sk_...", or None (_resolve_tier, lines 295-308)
BearerToken(auth) ==
    IF auth = <<>> THEN None
    ELSE IF Len(auth) # 2 \/ Lower(auth[1]) # "bearer" THEN None
    ELSE IF ~StartsWithMidosSk(auth[2]) THEN None
    ELSE auth[2]

\* whether _resolve_tier reaches self._get_keys()
ReadsKeys(h) == ~IsLocalhost(h) /\ BearerToken(h.authorization) # None

\* ApiKeyMiddleware._resolve_tier, given the keys _get_keys returned
ResolveTier(h, keys) ==
    IF IsLocalhost(h) THEN [tier |-> "pro", key |-> None]
    ELSE LET token == BearerToken(h.authorization)
         IN  IF token = None THEN [tier |-> "free", key |-> None]
             ELSE IF token \notin DOMAIN keys \/ ~keys[token].active
                  THEN [tier |-> "invalid", key |-> token]
                  ELSE [tier |-> keys[token].tier, key |-> token]

\* ApiKeyMiddleware._get_anonymous_id: "anon_" + sha256(ip)[:16], the hash
\* kept as the ip it is taken of
AnonymousId(h) ==
    LET ip == IF h.xff # <<>> THEN h.xff
              ELSE IF h.real_ip # "" THEN <<h.real_ip>>
              ELSE <<"anonymous">>
    IN  <<"anon_">> \o ip

\* identifier = key if key else self._get_anonymous_id()
Identifier(h, key) == IF key # None THEN <<key>> ELSE AnonymousId(h)

\* the reload test of _get_keys
CacheExpired(cache, age) == ~cache.loaded \/ age > CACHE_TTL

\* the keys _get_keys returns
GetKeys(cache, age, file) == IF CacheExpired(cache, age) THEN file ELSE cache.keys

\* the two rejections of on_call_tool that come before the quota check
GateDecision(tool, tier, key) ==
    IF tier = "invalid" THEN "invalid_key"
    ELSE IF tool \notin FREE_TOOLS /\ tier = "free" /\ key = None
         THEN "requires_key"
         ELSE "quota"

(***************************************************************************)
(* auth.py: the quota ledger                                               *)
(***************************************************************************)

\* _get_usage_count
GetUsageCount(file, id, m) ==
    IF id \in DOMAIN file /\ file[id].month = m THEN file[id].count ELSE 0

UsageMemKeptAcrossMonths(mem, cached_month, m) == mem

\* "Reset on new month" of _check_and_increment
UsageMemForMonth(mem, cached_month, m) ==
    IF m # cached_month THEN EmptyMap ELSE mem

QuotaExhaustedOffByOne(count, limit) == count > limit

\* the limit test of _check_and_increment
QuotaExhausted(count, limit) == count >= limit

\* _flush_usage: every in-memory counter written under the current month
FlushUsage(file, mem, m) ==
    [id \in DOMAIN file \cup DOMAIN mem |->
        IF id \in DOMAIN mem THEN [month |-> m, count |-> mem[id]] ELSE file[id]]

\* _check_and_increment(identifier, tier): its result and the ledger after it.
\* write_ok is whether _save_usage can write usage.json; when it cannot, the
\* OSError of write_text leaves _flush_usage and _check_and_increment (raised)
CheckAndIncrement(id, tier, write_ok) ==
    LET limit == QueriesPerMonth(tier)
        mem0 == UsageMemForMonth(usage_mem, usage_month, month)
        mem1 == IF id \in DOMAIN mem0 THEN mem0
                ELSE Put(mem0, id, GetUsageCount(usage_file, id, month))
        count == mem1[id]
    IN  IF QuotaExhausted(count, limit)
        THEN [allowed |-> FALSE, count |-> count, limit |-> limit,
              mem |-> mem1, file |-> usage_file, flush_age |-> flush_age,
              raised |-> FALSE]
        ELSE LET mem2 == Put(mem1, id, count + 1)
                 due == flush_age > FLUSH_INTERVAL
             IN  [allowed |-> TRUE, count |-> count + 1, limit |-> limit,
                  mem |-> mem2,
                  file |-> IF due /\ write_ok
                           THEN FlushUsage(usage_file, mem2, month)
                           ELSE usage_file,
                  flush_age |-> IF due /\ write_ok THEN 0 ELSE flush_age,
                  raised |-> due /\ ~write_ok]

(***************************************************************************)
(* auth.py: the key store                                                  *)
(***************************************************************************)

\* generate_key(name, tier): a fresh key, written with active = True
GenerateKey(tier) ==
    /\ tier \in TIER_LIMITS_KEYS
    /\ \E key \in KeyPool \ DOMAIN keys_file :
          keys_file' = Put(keys_file, key, [tier |-> tier, active |-> TRUE])
    /\ UNCHANGED <<usage_file, keys_cache, cache_age, usage_mem, usage_month,
                   flush_age, month, last, revoked, hist>>
    /\ UNCHANGED notGateVars

\* revoke_key(key): True, and active = False, when the key is in the file
RevokeKey(key) ==
    /\ IF key \in DOMAIN keys_file
       THEN /\ keys_file' = Put(keys_file, key,
                                [keys_file[key] EXCEPT !.active = FALSE])
            /\ revoked' = revoked \cup {key}
       ELSE UNCHANGED <<keys_file, revoked>>
    /\ UNCHANGED <<usage_file, keys_cache, cache_age, usage_mem, usage_month,
                   flush_age, month, last, hist>>
    /\ UNCHANGED notGateVars

\* the processes (CLI invocations, admin scripts) that call generate_key
\* and revoke_key at the same time
Procs == {"p1", "p2"}

\* the keys secrets.token_hex hands to those calls
FreshKeys == {"midos_sk_a1", "midos_sk_b2"}

IdleOp == [pc |-> "idle", op |-> None, key |-> None, tier |-> None, keys |-> EmptyMap]

\* the variables of the gate that the key store calls leave alone
keyOpFrame == <<usage_file, keys_cache, cache_age, usage_mem, usage_month,
                flush_age, month, last, hist>>

\* generate_key, lines 148-152: the key is drawn and keys = _load_keys()
GenerateKeyLoad(p, key, tier) ==
    /\ key_ops[p].pc = "idle"
    /\ tier \in TIER_LIMITS_KEYS
    /\ key \notin DOMAIN keys_file
    /\ \A q \in Procs : key_ops[q].op = "generate" => key_ops[q].key # key
    /\ key_ops' = [key_ops EXCEPT ![p] = [pc |-> "loaded", op |-> "generate",
                                          key |-> key, tier |-> tier,
                                          keys |-> keys_file]]
    /\ UNCHANGED <<keys_file, revoked, generated>>
    /\ UNCHANGED <<keyOpFrame, storeVars, embedVars, toolVars, shakeVars, nameVars, chunkVars, queryVars, breakerVars, twinVars>>

\* generate_key, lines 153-161: the entry is put in and the whole map saved
GenerateKeySave(p) ==
    /\ key_ops[p].pc = "loaded" /\ key_ops[p].op = "generate"
    /\ keys_file' = Put(key_ops[p].keys, key_ops[p].key,
                        [tier |-> key_ops[p].tier, active |-> TRUE])
    /\ generated' = generated \cup {key_ops[p].key}
    /\ key_ops' = [key_ops EXCEPT ![p] = IdleOp]
    /\ UNCHANGED revoked
    /\ UNCHANGED <<keyOpFrame, storeVars, embedVars, toolVars, shakeVars, nameVars, chunkVars, queryVars, breakerVars, twinVars>>

\* revoke_key, lines 166-167: keys = _load_keys() and the test "key in keys"
\* (False is returned at once when the key is not there)
RevokeKeyLoad(p, key) ==
    /\ key_ops[p].pc = "idle"
    /\ key_ops' = [key_ops EXCEPT ![p] =
                      IF key \in DOMAIN keys_file
                      THEN [pc |-> "loaded", op |-> "revoke", key |-> key,
                            tier |-> None, keys |-> keys_file]
                      ELSE IdleOp]
    /\ UNCHANGED <<keys_file, revoked, generated>>
    /\ UNCHANGED <<keyOpFrame, storeVars, embedVars, toolVars, shakeVars, nameVars, chunkVars, queryVars, breakerVars, twinVars>>

\* revoke_key, lines 168-171: active = False, the whole map saved, True
RevokeKeySave(p) ==
    /\ key_ops[p].pc = "loaded" /\ key_ops[p].op = "revoke"
    /\ keys_file' = Put(key_ops[p].keys, key_ops[p].key,
                        [key_ops[p].keys[key_ops[p].key] EXCEPT !.active = FALSE])
    /\ revoked' = revoked \cup {key_ops[p].key}
    /\ key_ops' = [key_ops EXCEPT ![p] = IdleOp]
    /\ UNCHANGED generated
    /\ UNCHANGED <<keyOpFrame, storeVars, embedVars, toolVars, shakeVars, nameVars, chunkVars, queryVars, breakerVars, twinVars>>

KeyOpsInit ==
    /\ key_ops = [p \in Procs |-> IdleOp]
    /\ generated = {}

(***************************************************************************)
(* auth.py: the middleware                                                 *)
(***************************************************************************)

\* history: the key a request presents after "Bearer", if any
PresentedKey(h) ==
    IF Len(h.authorization) = 2 THEN h.authorization[2] ELSE None

NoHeaders == [xff |-> <<>>, real_ip |-> "", host |-> <<>>, authorization |-> <<>>]

NoCall ==
    [op |-> "none", tool |-> None, h |-> NoHeaders, tier |-> None, key |-> None,
     outcome |-> None, id |-> <<>>, count |-> 0, limit |-> 0,
     nth |-> 0, prev |-> 0, tiers |-> {}, month |-> 0, after_revoke |-> FALSE,
     flush_failed |-> FALSE]

\* the per-identifier call history of the running month
HistOf(id) ==
    IF id \in DOMAIN hist THEN hist[id] ELSE [calls |-> 0, tiers |-> {}, ret |-> 0]

\* the calls one identifier makes in a month beyond its tier's limit
ExtraCalls == 1

\* the cap on one identifier's check_and_increment calls per month
MaxCalls(tier) == QueriesPerMonth(tier) + ExtraCalls

\* ApiKeyMiddleware.on_call_tool up to "return await call_next(context)":
\* what it does to the gate's state; an exception that leaves
\* _check_and_increment leaves on_call_tool too (outcome "error")
GateStep(tool, h, write_ok) ==
    LET reload == ReadsKeys(h) /\ CacheExpired(keys_cache, cache_age)
        keys == GetKeys(keys_cache, cache_age, keys_file)
        rt == ResolveTier(h, keys)
        decision == GateDecision(tool, rt.tier, rt.key)
        id == Identifier(h, rt.key)
        r == CheckAndIncrement(id, rt.tier, write_ok)
        before == HistOf(id)
    IN  /\ keys_cache' = IF reload THEN [loaded |-> TRUE, keys |-> keys_file]
                         ELSE keys_cache
        /\ cache_age' = IF reload THEN 0 ELSE cache_age
        /\ IF decision = "quota"
           THEN /\ before.calls < MaxCalls(rt.tier)
                /\ usage_mem' = r.mem
                /\ usage_month' = month
                /\ usage_file' = r.file
                /\ flush_age' = r.flush_age
                /\ hist' = Put(hist, id,
                               [calls |-> before.calls + 1,
                                tiers |-> before.tiers \cup {rt.tier},
                                ret |-> IF r.raised THEN before.ret ELSE r.count])
                /\ last' = [op |-> "call", tool |-> tool, h |-> h,
                            tier |-> rt.tier, key |-> rt.key,
                            outcome |-> IF r.raised THEN "error"
                                        ELSE IF r.allowed THEN "handler"
                                        ELSE "rate_limited",
                            id |-> id, count |-> r.count, limit |-> r.limit,
                            nth |-> before.calls + 1, prev |-> before.ret,
                            tiers |-> before.tiers \cup {rt.tier},
                            month |-> month,
                            after_revoke |-> PresentedKey(h) \in revoked,
                            flush_failed |-> r.raised]
           ELSE /\ UNCHANGED <<usage_mem, usage_month, usage_file, flush_age, hist>>
                /\ last' = [NoCall EXCEPT !.op = "call", !.tool = tool, !.h = h,
                                          !.tier = rt.tier, !.key = rt.key,
                                          !.outcome = decision, !.month = month,
                                          !.after_revoke = PresentedKey(h) \in revoked]
        /\ UNCHANGED <<keys_file, month, revoked>>

\* ApiKeyMiddleware.on_call_tool for a tool whose handler is not looked into
OnCallTool(tool, h, write_ok) ==
    /\ GateStep(tool, h, write_ok)
    /\ UNCHANGED notGateVars

\* ApiKeyMiddleware.on_list_tools: the tier is resolved, every tool is listed
OnListTools(h) ==
    LET reload == ReadsKeys(h) /\ CacheExpired(keys_cache, cache_age)
        keys == GetKeys(keys_cache, cache_age, keys_file)
        rt == ResolveTier(h, keys)
    IN  /\ keys_cache' = IF reload THEN [loaded |-> TRUE, keys |-> keys_file]
                         ELSE keys_cache
        /\ cache_age' = IF reload THEN 0 ELSE cache_age
        /\ last' = [NoCall EXCEPT !.op = "list", !.h = h, !.tier = rt.tier,
                                  !.key = rt.key, !.outcome = "listed",
                                  !.month = month,
                                  !.after_revoke = PresentedKey(h) \in revoked]
        /\ UNCHANGED <<keys_file, usage_file, usage_mem, usage_month, flush_age,
                       month, revoked, hist>>
    /\ UNCHANGED notGateVars

\* time.time() advances by d seconds within the month
Tick(d) ==
    /\ cache_age' = Min(cache_age + d, CACHE_TTL + 1)
    /\ flush_age' = Min(flush_age + d, FLUSH_INTERVAL + 1)
    /\ UNCHANGED <<keys_file, usage_file, keys_cache, usage_mem, usage_month,
                   month, last, revoked, hist>>
    /\ UNCHANGED notGateVars

\* the UTC month changes
NewMonth ==
    /\ month < MaxMonth
    /\ month' = month + 1
    /\ hist' = EmptyMap
    /\ UNCHANGED <<keys_file, usage_file, keys_cache, cache_age, usage_mem,
                   usage_month, flush_age, last, revoked>>
    /\ UNCHANGED notGateVars

\* the server process is restarted: ApiKeyMiddleware.__init__ runs again
\* and the files stay as they are
Restart ==
    /\ keys_cache' = [loaded |-> FALSE, keys |-> EmptyMap]
    /\ cache_age' = CACHE_TTL + 1
    /\ usage_mem' = EmptyMap
    /\ usage_month' = month
    /\ flush_age' = 0
    /\ UNCHANGED <<keys_file, usage_file, month, last, revoked, hist>>
    /\ UNCHANGED notGateVars

\* the files of a fresh deployment and ApiKeyMiddleware.__init__
GateInit ==
    /\ keys_file = EmptyMap
    /\ usage_file = EmptyMap
    /\ keys_cache = [loaded |-> FALSE, keys |-> EmptyMap]
    /\ cache_age = CACHE_TTL + 1
    /\ usage_mem = EmptyMap
    /\ usage_month = 0
    /\ flush_age = 0
    /\ month = 0
    /\ last = NoCall
    /\ revoked = {}
    /\ hist = EmptyMap


(***************************************************************************)
(* vector_store.py: the store.  A chunk is kept by its text, its source,   *)
(* its access_count and the state of its decay_score; the embedding        *)
(* provider and the LanceDB queries are the environment: an ANN query      *)
(* ranks the rows by nearness to the query (an equal text first), a BM25   *)
(* query returns the rows that hold the query's words.                     *)
(***************************************************************************)

Texts == {"alpha", "beta"}
Queries == {"alpha"}
Modes == {"vector", "keyword", "hybrid"}

\* the most rows the model's table holds, and the top_k of the searches
MaxRows == 2
TopK == 1

QUERY_CACHE_TTL == 60
RRF_K == 60

NoTable == [exists |-> FALSE, rows |-> <<>>]

\* the rows of a sequence that satisfy / do not satisfy "text = q", in order
SelectSeq2(rows, q, want) ==
    SelectSeq(rows, LAMBDA r : (r.text = q) = want)

Take(seq, n) == SubSeq(seq, 1, Min(n, Len(seq)))

\* tbl.search(query_vector).limit(retrieve_k).to_list()
VecSearch(rows, q, k) == Take(SelectSeq2(rows, q, TRUE) \o SelectSeq2(rows, q, FALSE), k)

\* tbl.search(query, query_type="fts").limit(retrieve_k).to_list()
FtsSearch(rows, q, k) == Take(SelectSeq2(rows, q, TRUE), k)

\* 1 / (rank + 1 + k), as a multiple of 1 / (61 * 62 * 63): exact for ranks 0..2
RrfUnit(rank) == (61 * 62 * 63) \div (rank + 1 + RRF_K)

\* the last index of seq with doc id t, or 0 (a later rank overwrites an earlier)
LastIndexOf(seq, t) ==
    IF \E i \in 1..Len(seq) : seq[i].text = t
    THEN CHOOSE i \in 1..Len(seq) : seq[i].text = t /\ \A j \in (i+1)..Len(seq) : seq[j].text # t
    ELSE 0

\* doc ids in dict insertion order: the vector leg's, then the new ones of fts
RECURSIVE DocIds(_, _)
DocIds(seq, seen) ==
    IF seq = <<>> THEN <<>>
    ELSE IF Head(seq).text \in seen THEN DocIds(Tail(seq), seen)
    ELSE <<Head(seq).text>> \o DocIds(Tail(seq), seen \cup {Head(seq).text})

RECURSIVE SumOver(_, _)
SumOver(S, f) ==
    IF S = {} THEN 0
    ELSE LET x == CHOOSE y \in S : TRUE IN f[x] + SumOver(S \ {x}, f)

\* doc_scores of _rrf_fuse_weighted, alpha in percent: the vector leg sets the
\* score (a later rank overwrites an earlier), every fts rank adds to it
RrfScore(vec, fts, alpha, t) ==
    LET v == LastIndexOf(vec, t)
        idx == {i \in 1..Len(fts) : fts[i].text = t}
        part == [i \in idx |-> (100 - alpha) * RrfUnit(i - 1)]
    IN  (IF v # 0 THEN alpha * RrfUnit(v - 1) ELSE 0) + SumOver(idx, part)

\* sorted(..., reverse=True): a stable sort of ids by descending score
RECURSIVE SortDesc(_, _)
SortDesc(ids, score) ==
    IF ids = <<>> THEN <<>>
    ELSE LET best == CHOOSE i \in 1..Len(ids) :
                        /\ \A j \in 1..Len(ids) : score[ids[j]] <= score[ids[i]]
                        /\ \A j \in 1..(i-1) : score[ids[j]] < score[ids[i]]
             rest == [j \in 1..(Len(ids)-1) |-> IF j < best THEN ids[j] ELSE ids[j+1]]
         IN  <<ids[best]>> \o SortDesc(rest, score)

\* VectorStore._rrf_fuse_weighted: the fused documents, by their doc ids
RrfFuseWeighted(vec, fts, alpha, limit) ==
    LET ids == DocIds(vec \o fts, {})
        score == [t \in {ids[i] : i \in 1..Len(ids)} |-> RrfScore(vec, fts, alpha, t)]
    IN  Take(SortDesc(ids, score), limit)

\* the texts of a list of rows
TextsOf(rows) == [i \in 1..Len(rows) |-> rows[i].text]

\* the body of VectorStore.search after the cache lookup: the texts returned
SearchTable(rows, q, top_k, mode, alpha, emb_ok, fts_ok) ==
    LET retrieve_k == Min(top_k * 3, 30)
        vec == IF mode \in {"vector", "hybrid"} /\ emb_ok
               THEN VecSearch(rows, q, retrieve_k) ELSE <<>>
        fts == IF mode \in {"keyword", "hybrid"} /\ fts_ok
               THEN FtsSearch(rows, q, retrieve_k) ELSE <<>>
        merged == IF mode = "vector" THEN Take(TextsOf(vec), top_k * 2)
                  ELSE IF mode = "keyword" THEN Take(TextsOf(fts), top_k * 2)
                  ELSE IF vec # <<>> /\ fts # <<>>
                       THEN RrfFuseWeighted(vec, fts, alpha, top_k * 2)
                  ELSE IF vec # <<>> THEN Take(TextsOf(vec), top_k * 2)
                  ELSE Take(TextsOf(fts), top_k * 2)
    IN  Take(merged, top_k)


NoFound ==
    [op |-> "none", query |-> None, mode |-> None, results |-> <<>>, n |-> 0,
     seen |-> None, known |-> FALSE, healthy |-> FALSE, rescoring |-> FALSE,
     emb |-> FALSE, ann |-> FALSE, fts |-> FALSE, raised |-> FALSE,
     vec_leg |-> <<>>, fts_leg |-> <<>>]

\* the fingerprint of (query, top_k, mode, rerank, alpha)
QueryCacheKey(q, top_k, mode, rerank, alpha) == <<q, mode>>

\* the cache lookup of VectorStore.search
CacheHit(cache, key) == key \in DOMAIN cache /\ cache[key].age < QUERY_CACHE_TTL

\* VectorStore.add([item]); ok = FALSE is a write LanceDB refuses
Add(text, source, ok) ==
    /\ Len(table.rows) < MaxRows
    /\ LET row == [text |-> text, source |-> source, access_count |-> 0,
                   decay |-> "unset"]
       IN  IF ok
           THEN /\ table' = [exists |-> TRUE, rows |-> Append(table.rows, row)]
                /\ added' = added \cup {text}
           ELSE UNCHANGED <<table, added>>
    /\ UNCHANGED <<query_cache, rescore, found>>
    /\ UNCHANGED notStoreVars

\* VectorStore.search(query, top_k, search_mode=mode): emb_ok is whether
\* get_query_embedding returns a vector, ann_ok whether tbl.search(vector)
\* answers rather than raises, fts_ok whether the BM25 leg answers.
\* legs_ok of a cache entry and found.healthy are history: whether all legs
\* answered in the run that computed the results returned; found.vec_leg and
\* found.fts_leg are what each leg alone holds for the query, kept for the
\* searches that reach the table
Search(q, mode, emb_ok, ann_ok, fts_ok) ==
    LET key == QueryCacheKey(q, TopK, mode, FALSE, 50)
        base == [NoFound EXCEPT !.op = "search", !.query = q, !.mode = mode,
                                !.known = (q \in added),
                                !.rescoring = (rescore.pc # "idle")]
    IN  /\ IF CacheHit(query_cache, key)
           THEN /\ found' = [base EXCEPT !.results = query_cache[key].results,
                                         !.healthy = query_cache[key].legs_ok,
                                         !.seen = "cache"]
                /\ UNCHANGED query_cache
           ELSE IF ~table.exists \/ table.rows = <<>>
           THEN /\ found' = [base EXCEPT !.seen = "missing"]
                /\ UNCHANGED query_cache
           ELSE LET legs == [base EXCEPT
                                !.seen = "table",
                                !.healthy = (emb_ok /\ ann_ok /\ fts_ok),
                                !.emb = emb_ok, !.ann = ann_ok, !.fts = fts_ok,
                                !.vec_leg = Take(TextsOf(VecSearch(table.rows, q,
                                                     Min(TopK * 3, 30))), TopK),
                                !.fts_leg = Take(TextsOf(FtsSearch(table.rows, q,
                                                     Min(TopK * 3, 30))), TopK)]
                IN  IF mode = "vector" /\ ~emb_ok
                    THEN /\ found' = legs
                         /\ UNCHANGED query_cache
                    ELSE IF mode \in {"vector", "hybrid"} /\ emb_ok /\ ~ann_ok
                    THEN \* the ANN query raises inside the outer try: the
                         \* except of lines 581-583 logs and returns []
                         /\ found' = legs
                         /\ UNCHANGED query_cache
                    ELSE LET res == SearchTable(table.rows, q, TopK, mode, 50,
                                                emb_ok, fts_ok)
                         IN  /\ found' = [legs EXCEPT !.results = res]
                             /\ query_cache' =
                                    Put(query_cache, key,
                                        [age |-> 0, results |-> res,
                                         legs_ok |-> emb_ok /\ ann_ok /\ fts_ok])
        /\ UNCHANGED <<table, rescore, added>>
        /\ UNCHANGED notStoreVars

\* VectorStore.count
Count ==
    /\ found' = [NoFound EXCEPT !.op = "count",
                                !.n = IF table.exists THEN Len(table.rows) ELSE 0,
                                !.seen = IF table.exists /\ table.rows # <<>>
                                         THEN "table" ELSE "missing",
                                !.rescoring = (rescore.pc # "idle")]
    /\ UNCHANGED <<table, query_cache, rescore, added>>
    /\ UNCHANGED notStoreVars

\* batch_rescore_decay, lines 806-846: the table is read into a dataframe and
\* every row's decay_score is recomputed
RescoreRead ==
    /\ rescore.pc = "idle"
    /\ table.exists /\ table.rows # <<>>
    /\ rescore' = [pc |-> "read",
                   df |-> [i \in 1..Len(table.rows) |->
                              [table.rows[i] EXCEPT !.decay = "scored"]]]
    /\ UNCHANGED <<table, query_cache, added, found>>
    /\ UNCHANGED notStoreVars

\* batch_rescore_decay, line 848: self.db.drop_table(...)
RescoreDrop ==
    /\ rescore.pc = "read"
    /\ table' = NoTable
    /\ rescore' = [rescore EXCEPT !.pc = "dropped"]
    /\ UNCHANGED <<query_cache, added, found>>
    /\ UNCHANGED notStoreVars

\* batch_rescore_decay, line 849: self.db.create_table(..., data=df), which
\* raises when the write fails or the table exists again
RescoreCreate(ok) ==
    /\ rescore.pc = "dropped"
    /\ IF ok /\ ~table.exists
       THEN table' = [exists |-> TRUE, rows |-> rescore.df]
       ELSE UNCHANGED table
    /\ rescore' = [pc |-> "idle", df |-> <<>>]
    /\ UNCHANGED <<query_cache, added, found>>
    /\ UNCHANGED notStoreVars

\* time.time() advances by d seconds
StoreTick(d) ==
    /\ query_cache # EmptyMap
    /\ query_cache' = [k \in DOMAIN query_cache |->
                          [query_cache[k] EXCEPT !.age = Min(@ + d, QUERY_CACHE_TTL)]]
    /\ UNCHANGED <<table, rescore, added, found>>
    /\ UNCHANGED notStoreVars

StoreInit ==
    /\ table = NoTable
    /\ query_cache = EmptyMap
    /\ rescore = [pc |-> "idle", df |-> <<>>]
    /\ added = {}
    /\ found = NoFound


(***************************************************************************)
(* vector_store.py: several VectorStore objects.  Every VectorStore(name)  *)
(* connects to the same database and reads the _query_cache attribute of   *)
(* the class, which no __init__ rebinds.                                   *)
(***************************************************************************)

TableNames == {"knowledge", "episodes"}

NoAnswer ==
    [table |-> None, query |-> None, mode |-> None, results |-> <<>>,
     seen |-> None, by |-> None]

\* VectorStore(name).add([item]); ok = FALSE is a write LanceDB refuses
AddTo(name, text, ok) ==
    /\ Len(lance[name].rows) < MaxRows
    /\ LET row == [text |-> text, source |-> "a.md", access_count |-> 0,
                   decay |-> "unset"]
       IN  IF ok
           THEN lance' = [lance EXCEPT ![name] =
                             [exists |-> TRUE, rows |-> Append(@.rows, row)]]
           ELSE UNCHANGED lance
    /\ UNCHANGED <<class_query_cache, answered>>
    /\ UNCHANGED notTwinVars

\* VectorStore(name).search(query, top_k, search_mode=mode); emb_ok, ann_ok
\* and fts_ok as in Search.  The field by of a cache entry and of the answer
\* is history: the table whose search computed the results
SearchOn(name, q, mode, emb_ok, ann_ok, fts_ok) ==
    LET key == QueryCacheKey(q, TopK, mode, FALSE, 50)
        base == [NoAnswer EXCEPT !.table = name, !.query = q, !.mode = mode]
        tbl == lance[name]
    IN  /\ IF CacheHit(class_query_cache, key)
           THEN /\ answered' = [base EXCEPT
                                   !.results = class_query_cache[key].results,
                                   !.by = class_query_cache[key].by,
                                   !.seen = "cache"]
                /\ UNCHANGED class_query_cache
           ELSE IF ~tbl.exists
           THEN /\ answered' = [base EXCEPT !.seen = "missing"]
                /\ UNCHANGED class_query_cache
           ELSE IF \/ mode = "vector" /\ ~emb_ok
                   \/ mode \in {"vector", "hybrid"} /\ emb_ok /\ ~ann_ok
           THEN /\ answered' = [base EXCEPT !.seen = "table", !.by = name]
                /\ UNCHANGED class_query_cache
           ELSE LET res == SearchTable(tbl.rows, q, TopK, mode, 50, emb_ok, fts_ok)
                IN  /\ answered' = [base EXCEPT !.seen = "table", !.by = name,
                                                !.results = res]
                    /\ class_query_cache' =
                           Put(class_query_cache, key,
                               [age |-> 0, results |-> res, by |-> name])
        /\ UNCHANGED lance
        /\ UNCHANGED notTwinVars

\* time.time() advances by d seconds
TwinTick(d) ==
    /\ class_query_cache # EmptyMap
    /\ \E k \in DOMAIN class_query_cache : class_query_cache[k].age < QUERY_CACHE_TTL
    /\ class_query_cache' =
           [k \in DOMAIN class_query_cache |->
               [class_query_cache[k] EXCEPT !.age = Min(@ + d, QUERY_CACHE_TTL)]]
    /\ UNCHANGED <<lance, answered>>
    /\ UNCHANGED notTwinVars

TwinInit ==
    /\ lance = [n \in TableNames |-> NoTable]
    /\ class_query_cache = EmptyMap
    /\ answered = NoAnswer

(***************************************************************************)
(* vector_store.py: get_embeddings_batch                                   *)
(***************************************************************************)

EmbedTexts == {"alpha", "beta", "gamma"}

\* the longest texts list of a call, and the batch_size the calls pass
MaxTexts == 4
BatchSize == 2

\* the vector the provider returns for a text, and the None of a failed slot
Embedding(t) == <<"embedding_of", t>>
NoEmbedding == <<>>

\* range(0, len(uncached_texts), batch_size)
BatchStarts(n) == {i \in 0..(n - 1) : i % BatchSize = 0}

\* uncached_texts[i : i + batch_size], as 0-based positions
BatchSlots(start_idx, n) == {i \in start_idx..Min(start_idx + BatchSize, n) - 1 : TRUE}

SlotIgnoringStart(start_idx, j) == j

\* uncached_results[start_idx + j] = emb
SlotOf(start_idx, j) == start_idx + j

\* Phase 1: the original indices (1-based) of the texts not in the cache
UncachedOf(texts, cache) ==
    SelectSeq([i \in 1..Len(texts) |-> i], LAMBDA i : texts[i] \notin cache)

NoEmbed ==
    [pc |-> "idle", texts |-> <<>>, cache0 |-> {}, client |-> FALSE,
     results |-> <<>>, uncached |-> <<>>, futures |-> EmptyMap, failed |-> {}]

\* get_embeddings_batch(texts), lines 104-133: the cache lookup, the early
\* returns, and the batches handed to the executor
EmbedCall(texts, client_ok) ==
    /\ embed.pc \in {"idle", "done"}
    /\ LET results == [i \in 1..Len(texts) |->
                          IF texts[i] \in embedding_cache
                          THEN Embedding(texts[i]) ELSE NoEmbedding]
           uncached == UncachedOf(texts, embedding_cache)
           run == uncached # <<>> /\ client_ok
       IN  embed' = [pc |-> IF run THEN "running" ELSE "done",
                     texts |-> texts, cache0 |-> embedding_cache,
                     client |-> client_ok,
                     results |-> results, uncached |-> uncached,
                     futures |-> IF run
                                 THEN [b \in BatchStarts(Len(uncached)) |-> "queued"]
                                 ELSE EmptyMap,
                     failed |-> {}]
    /\ UNCHANGED embedding_cache
    /\ UNCHANGED notEmbedVars

\* _embed_batch, first provider call of batch b in a worker thread
EmbedBatch(b, ok) ==
    /\ embed.pc = "running"
    /\ b \in DOMAIN embed.futures /\ embed.futures[b] = "queued"
    /\ embed' = [embed EXCEPT !.futures[b] = IF ok THEN "embedded" ELSE "retrying"]
    /\ UNCHANGED embedding_cache
    /\ UNCHANGED notEmbedVars

\* _embed_batch, the retry after time.sleep(2)
EmbedBatchRetry(b, ok) ==
    /\ embed.pc = "running"
    /\ b \in DOMAIN embed.futures /\ embed.futures[b] = "retrying"
    /\ embed' = [embed EXCEPT !.futures[b] = IF ok THEN "embedded" ELSE "nones",
                              !.failed = IF ok THEN @ ELSE @ \cup {b}]
    /\ UNCHANGED embedding_cache
    /\ UNCHANGED notEmbedVars

\* what the loop over executor.map leaves in uncached_results (0-based)
UncachedResults(e) ==
    LET n == Len(e.uncached)
        written == {<<b, j>> : b \in DOMAIN e.futures, j \in 0..(BatchSize - 1)}
        hits(i) == {w \in written :
                        /\ w[1] + w[2] \in BatchSlots(w[1], n)
                        /\ SlotOf(w[1], w[2]) = i}
    IN  [i \in 0..(n - 1) |->
            IF \E w \in hits(i) : e.futures[w[1]] = "embedded"
            THEN LET w == CHOOSE w \in hits(i) :
                              /\ e.futures[w[1]] = "embedded"
                              /\ \A v \in hits(i) : v[1] <= w[1]
                 IN  Embedding(e.texts[e.uncached[w[1] + w[2] + 1]])
            ELSE NoEmbedding]

\* lines 167-191: the executor has run every batch; the results are put in
\* place in submission order and the new embeddings are cached
EmbedCollect ==
    /\ embed.pc = "running"
    /\ \A b \in DOMAIN embed.futures : embed.futures[b] \in {"embedded", "nones"}
    /\ LET ur == UncachedResults(embed)
           pos(i) == CHOOSE k \in 1..Len(embed.uncached) : embed.uncached[k] = i
           in_uncached(i) == \E k \in 1..Len(embed.uncached) : embed.uncached[k] = i
       IN  /\ embed' = [embed EXCEPT
                           !.pc = "done",
                           !.results = [i \in 1..Len(embed.texts) |->
                                           IF in_uncached(i) THEN ur[pos(i) - 1]
                                           ELSE embed.results[i]]]
           /\ embedding_cache' = embedding_cache \cup
                  {embed.texts[embed.uncached[k]] :
                      k \in {k \in 1..Len(embed.uncached) : ur[k - 1] # NoEmbedding}}
    /\ UNCHANGED notEmbedVars

EmbedInit ==
    /\ embedding_cache = {}
    /\ embed = NoEmbed


(***************************************************************************)
(* midos_mcp.py: the tool handlers get_skill and research_youtube.  A path *)
(* is the sequence of its components below MIDOS_ROOT; every file of the   *)
(* model is a .md file and is named by its stem.  A text is kept as its    *)
(* length and what it is made of.                                          *)
(***************************************************************************)

SKILLS_DIR == <<"knowledge", "archive", "legacy_system", "capabilities">>
PROTOCOLS_DIR == <<"knowledge", "archive", "legacy_system", "protocols">>

\* the .md files on disk and the length of each
Files ==
    (SKILLS_DIR \o <<"angular">>) :> 300
        @@ (SKILLS_DIR \o <<"RAG_SYSTEMS">>) :> 5000
        @@ (SKILLS_DIR \o <<"huge">>) :> 20000
        @@ (PROTOCOLS_DIR \o <<"secret">>) :> 700

\* the skill names of the calls, split at "/"
SkillNames ==
    {<<"angular">>, <<"rag_systems">>, <<"huge">>, <<"nonexistent">>,
     <<"..", "protocols", "secret">>, <<"..", "..", "..", "etc", "passwd">>}

\* len() of the strings of the model
StrLen(x) ==
    CASE x = "angular" -> 7 [] x = "RAG_SYSTEMS" -> 11 [] x = "rag_systems" -> 11
      [] x = "huge" -> 4 [] x = "nonexistent" -> 11 [] x = ".." -> 2
      [] x = "protocols" -> 9 [] x = "secret" -> 6 [] x = "etc" -> 3
      [] x = "passwd" -> 6 [] OTHER -> 0

\* len(name): the components and the "/" between them
RECURSIVE NameLen(_)
NameLen(name) ==
    IF name = <<>> THEN 0
    ELSE StrLen(Head(name)) + (IF Len(name) > 1 THEN 1 ELSE 0) + NameLen(Tail(name))

\* the number of decimal digits of n
RECURSIVE Digits(_)
Digits(n) == IF n < 10 THEN 1 ELSE 1 + Digits(n \div 10)

\* the directory a path's components lead to, ".." leaving a directory
RECURSIVE Normalise(_, _)
Normalise(dir, rest) ==
    IF rest = <<>> THEN dir
    ELSE IF Head(rest) = ".."
         THEN Normalise(IF dir = <<>> THEN dir ELSE SubSeq(dir, 1, Len(dir) - 1),
                        Tail(rest))
         ELSE Normalise(Append(dir, Head(rest)), Tail(rest))

\* SKILLS_DIR / f"{name}.md", as the file the operating system opens
SkillPath(name) ==
    Append(Normalise(SKILLS_DIR, SubSeq(name, 1, Len(name) - 1)), name[Len(name)])

\* SKILLS_DIR.glob("*.md")
SkillFiles == {f \in DOMAIN Files : SubSeq(f, 1, Len(f) - 1) = SKILLS_DIR}

\* the skill file get_skill settles on, or <<>> (lines 247-253)
ResolveSkill(name) ==
    IF SkillPath(name) \in DOMAIN Files THEN SkillPath(name)
    ELSE LET same == {f \in SkillFiles :
                         Len(name) = 1 /\ Lower(f[Len(f)]) = Lower(name[1])}
         IN  IF same # {} THEN CHOOSE f \in same : TRUE ELSE <<>>

MAX_CHARS == 10000

\* an absent url, and the urls of the calls: the scheme and the host as
\* written, and len(url)
NoUrl == [scheme |-> "", host |-> "", len |-> 0]

Urls ==
    {NoUrl,
     [scheme |-> "https", host |-> "www.youtube.com", len |-> 43],
     [scheme |-> "HTTPS", host |-> "YouTube.com", len |-> 21],
     [scheme |-> "https", host |-> "evil.example.com", len |-> 26],
     [scheme |-> "ftp", host |-> "youtube.com", len |-> 21],
     [scheme |-> "", host |-> "", len |-> 17],
     [scheme |-> "https", host |-> "m.youtube.com", len |-> 2048],
     [scheme |-> "https", host |-> "youtu.be", len |-> 2049]}

NoReply ==
    [tool |-> None, kind |-> "none", len |-> 0, file |-> <<>>, head |-> 0,
     name |-> <<>>, upgrade |-> FALSE, url |-> NoUrl, second |-> 0,
     written |-> FALSE, inbox_same |-> TRUE, echoed |-> FALSE]

\* get_file_content(file_path): the content, cut at max_chars with a note
GetFileContent(f) ==
    LET n == Files[f]
    IN  [NoReply EXCEPT !.kind = "content", !.file = f,
                        !.head = Min(n, MAX_CHARS),
                        !.len = IF n > MAX_CHARS
                                THEN MAX_CHARS + 30 + Digits(n) ELSE n]

\* len(str(available)): the repr of a list of the skill stems
ReprLen(stems) ==
    2 + SumOver(stems, [x \in stems |-> StrLen(x) + 2])
      + (IF Cardinality(stems) > 1 THEN 2 * (Cardinality(stems) - 1) ELSE 0)

\* the handler get_skill(name)
GetSkill(name) ==
    LET f == ResolveSkill(name)
    IN  IF f # <<>> THEN GetFileContent(f)
        ELSE [NoReply EXCEPT
                 !.kind = "not_found", !.echoed = TRUE,
                 !.len = 17 + NameLen(name) + 20
                         + ReprLen({g[Len(g)] : g \in SkillFiles})]

\* the error a call gets when the middleware raises instead of calling on
GateError(outcome) == [NoReply EXCEPT !.kind = outcome]

\* tools/call get_skill: the middleware, then the handler
CallGetSkill(h, name) ==
    /\ GateStep("get_skill", h, TRUE)
    /\ reply' = [(IF last'.outcome = "handler" THEN GetSkill(name)
                  ELSE GateError(last'.outcome))
                    EXCEPT !.tool = "get_skill", !.name = name]
    /\ UNCHANGED <<inbox, clock>>
    /\ UNCHANGED notToolVars

MAX_URL_LEN == 2048

UrlTooLongOffByOne(n) == n > MAX_URL_LEN + 1

\* len(url) > 2048
UrlTooLong(n) == n > MAX_URL_LEN

\* urlparse(url): scheme and hostname in lower case, no hostname as ""
UrlParse(url) == [scheme |-> Lower(url.scheme), hostname |-> Lower(url.host)]

VALID_HOSTS == {"youtube.com", "www.youtube.com", "youtu.be", "m.youtube.com"}

\* the three checks of research_youtube: the ToolError raised, or "ok"
ValidateUrl(url) ==
    IF url.len = 0 \/ UrlTooLong(url.len) THEN "invalid_url"
    ELSE IF UrlParse(url).scheme \notin {"http", "https"} THEN "invalid_scheme"
    ELSE IF UrlParse(url).hostname \notin VALID_HOSTS THEN "invalid_host"
    ELSE "ok"

\* the handler research_youtube(url): its reply and the inbox after it; the
\* command goes to CMD_youtube_{int(time.time())}.json with write_text
ResearchYoutube(url) ==
    LET v == ValidateUrl(url)
        box == IF v = "ok" THEN Put(inbox, clock, url) ELSE inbox
    IN  [reply |-> [NoReply EXCEPT !.kind = IF v = "ok" THEN "queued" ELSE v,
                                   !.second = clock,
                                   !.written = (v = "ok"),
                                   !.inbox_same = (box = inbox)],
         inbox |-> box]

\* tools/call research_youtube: the middleware, then the handler
CallResearchYoutube(h, url) ==
    /\ GateStep("research_youtube", h, TRUE)
    /\ LET r == IF last'.outcome = "handler" THEN ResearchYoutube(url)
                ELSE [reply |-> GateError(last'.outcome), inbox |-> inbox]
       IN  /\ reply' = [r.reply EXCEPT !.tool = "research_youtube", !.url = url]
           /\ inbox' = r.inbox
    /\ UNCHANGED clock
    /\ UNCHANGED notToolVars

\* the last second the model's clock reaches
MaxClock == 1

\* a second passes
ClockTick ==
    /\ clock < MaxClock
    /\ clock' = clock + 1
    /\ UNCHANGED <<reply, inbox>>
    /\ UNCHANGED <<gateVars, notToolVars>>

ToolsInit ==
    /\ reply = NoReply
    /\ inbox = EmptyMap
    /\ clock = 0

(***************************************************************************)
(* agent_profiles.py, handshake_engine.py: agent_handshake.  A list is the *)
(* sequence of its items, an item being <<list, position>> where only its *)
(* place matters; a text of several words is the sequence of its words.    *)
(* The model keeps the sections of the handshake that the context budget   *)
(* sizes: tools, CLI instructions, skills, chunks, guardrails and tips.    *)
(***************************************************************************)

Items(list, n) == [i \in 1..n |-> <<list, i>>]

\* ModelSpec, with tips and recommended_skills as their lengths
ModelSpec(id, context_window, tools, vision, structured, tips, skills) ==
    [id |-> id, context_window |-> context_window, supports_tools |-> tools,
     supports_vision |-> vision, supports_structured |-> structured,
     tips |-> Items("model_tip", tips), recommended_skills |-> skills]

\* resolve_model's None
NoModel == ModelSpec("", 0, FALSE, FALSE, FALSE, 0, 0)

\* the entries of MODEL_CATALOG the model draws from
MODEL_CATALOG ==
    [id \in {"claude-opus-4-6", "gpt-4o", "gemini-2.5-pro", "mistral-small",
             "llama-4-maverick", "glm-4.5-air", "glm-5"} |->
        CASE id = "claude-opus-4-6" -> ModelSpec(id, 200000, TRUE, TRUE, TRUE, 3, 4)
          [] id = "gpt-4o" -> ModelSpec(id, 128000, TRUE, TRUE, TRUE, 2, 0)
          [] id = "gemini-2.5-pro" -> ModelSpec(id, 1000000, TRUE, TRUE, TRUE, 3, 4)
          [] id = "mistral-small" -> ModelSpec(id, 32000, TRUE, FALSE, TRUE, 1, 0)
          [] id = "llama-4-maverick" -> ModelSpec(id, 10000000, TRUE, TRUE, TRUE, 2, 0)
          [] id = "glm-4.5-air" -> ModelSpec(id, 128000, TRUE, FALSE, TRUE, 2, 0)
          [] id = "glm-5" -> ModelSpec(id, 200000, TRUE, TRUE, TRUE, 4, 0)]

\* MODEL_CATALOG.keys(), in the order of the dict
MODEL_KEYS ==
    <<"claude-opus-4-6", "gpt-4o", "gemini-2.5-pro", "mistral-small",
      "llama-4-maverick", "glm-4.5-air", "glm-5">>

\* the entries of _MODEL_ALIASES the model draws from
MODEL_ALIASES ==
    [a \in {"opus", "gemini pro", "glm5"} |->
        CASE a = "opus" -> "claude-opus-4-6"
          [] a = "gemini pro" -> "gemini-2.5-pro"
          [] a = "glm5" -> "glm-5"]

\* _MODEL_ALIASES.keys(), in the order of the dict
MODEL_ALIAS_KEYS == <<"opus", "gemini pro", "glm5">>

\* a model name that no step of resolve_model matches
UnlistedModel == "acme-9000"

\* what agent_handshake is given as model
ModelNames == {"", "opus", "GPT-4o", "mistral-small", "llama-4-maverick", UnlistedModel}

\* a name of the model, character by character
Chars(s) ==
    CASE s = "claude-opus-4-6" -> <<"c", "l", "a", "u", "d", "e", "-", "o", "p", "u", "s", "-", "4", "-", "6">>
      [] s = "gpt-4o" -> <<"g", "p", "t", "-", "4", "o">>
      [] s = "gemini-2.5-pro" -> <<"g", "e", "m", "i", "n", "i", "-", "2", ".", "5", "-", "p", "r", "o">>
      [] s = "mistral-small" -> <<"m", "i", "s", "t", "r", "a", "l", "-", "s", "m", "a", "l", "l">>
      [] s = "llama-4-maverick" -> <<"l", "l", "a", "m", "a", "-", "4", "-", "m", "a", "v", "e", "r", "i", "c", "k">>
      [] s = "glm-4.5-air" -> <<"g", "l", "m", "-", "4", ".", "5", "-", "a", "i", "r">>
      [] s = "glm-5" -> <<"g", "l", "m", "-", "5">>
      [] s = "opus" -> <<"o", "p", "u", "s">>
      [] s = "gemini pro" -> <<"g", "e", "m", "i", "n", "i", " ", "p", "r", "o">>
      [] s = "glm5" -> <<"g", "l", "m", "5">>
      [] s = "claude-code" -> <<"c", "l", "a", "u", "d", "e", "-", "c", "o", "d", "e">>
      [] s = "codex-cli" -> <<"c", "o", "d", "e", "x", "-", "c", "l", "i">>
      [] s = "cursor" -> <<"c", "u", "r", "s", "o", "r">>
      [] s = "cline" -> <<"c", "l", "i", "n", "e">>
      [] s = "claude code" -> <<"c", "l", "a", "u", "d", "e", " ", "c", "o", "d", "e">>
      [] s = "codex" -> <<"c", "o", "d", "e", "x">>
      [] s = "anthropic" -> <<"a", "n", "t", "h", "r", "o", "p", "i", "c">>
      [] s = "glm" -> <<"g", "l", "m">>
      [] s = "GLM" -> <<"G", "L", "M">>
      [] s = " glm " -> <<" ", "g", "l", "m", " ">>
      [] s = "gl" -> <<"g", "l">>
      [] s = "glm-9" -> <<"g", "l", "m", "-", "9">>
      [] s = "glm-4.6-air" -> <<"g", "l", "m", "-", "4", ".", "6", "-", "a", "i", "r">>
      [] s = "gemini" -> <<"g", "e", "m", "i", "n", "i">>
      [] s = "gemin" -> <<"g", "e", "m", "i", "n">>
      [] s = "gemini-2.5-pr0" -> <<"g", "e", "m", "i", "n", "i", "-", "2", ".", "5", "-", "p", "r", "0">>
      [] s = "GPT-4o" -> <<"G", "P", "T", "-", "4", "o">>
      [] s = "small" -> <<"s", "m", "a", "l", "l">>
      [] s = "maverick" -> <<"m", "a", "v", "e", "r", "i", "c", "k">>
      [] s = "acme-9000" -> <<"a", "c", "m", "e", "-", "9", "0", "0", "0">>
      [] s = "GLM-5" -> <<"G", "L", "M", "-", "5">>
      [] s = "claude" -> <<"c", "l", "a", "u", "d", "e">>
      [] s = "g" -> <<"g">>
      [] s = "Cursor" -> <<"C", "u", "r", "s", "o", "r">>
      [] s = "cursor-ide" -> <<"c", "u", "r", "s", "o", "r", "-", "i", "d", "e">>
      [] s = "cur" -> <<"c", "u", "r">>
      [] s = "curs0r" -> <<"c", "u", "r", "s", "0", "r">>
      [] s = "claude-kode" -> <<"c", "l", "a", "u", "d", "e", "-", "k", "o", "d", "e">>
      [] s = "claud-code" -> <<"c", "l", "a", "u", "d", "-", "c", "o", "d", "e">>
      [] s = "code" -> <<"c", "o", "d", "e">>
      [] s = "Cline" -> <<"C", "l", "i", "n", "e">>
      [] s = "acme-ide" -> <<"a", "c", "m", "e", "-", "i", "d", "e">>
      [] s = "c" -> <<"c">>
      [] OTHER -> <<>>

\* str.lower(), on one character
LowerChar(c) ==
    CASE c = "C" -> "c" [] c = "G" -> "g" [] c = "L" -> "l" [] c = "M" -> "m"
      [] c = "P" -> "p" [] c = "T" -> "t" [] OTHER -> c

\* str.strip(), on the characters of a name
RECURSIVE Strip(_)
Strip(cs) ==
    IF cs # <<>> /\ Head(cs) = " " THEN Strip(Tail(cs))
    ELSE IF cs # <<>> /\ cs[Len(cs)] = " " THEN Strip(SubSeq(cs, 1, Len(cs) - 1))
    ELSE cs

\* a normalisation that keeps the first character only
NormalizedFirstChar(raw) ==
    LET stripped == Strip(Chars(raw))
    IN  SubSeq([i \in 1..Len(stripped) |-> LowerChar(stripped[i])], 1, 1)

\* normalized = raw.strip().lower()
Normalized(raw) ==
    LET stripped == Strip(Chars(raw))
    IN  [i \in 1..Len(stripped) |-> LowerChar(stripped[i])]

\* a in b, for strings
IsSubstring(a, b) ==
    \E i \in 0..(Len(b) - Len(a)) : SubSeq(b, i + 1, i + Len(a)) = a

\* a.startswith(b), for strings
StartsWith(a, b) == Len(a) >= Len(b) /\ SubSeq(a, 1, Len(b)) = b

\* the characters of the model's names, in the order of their code points
Alphabet ==
    <<" ", "-", ".", "0", "2", "4", "5", "6", "9", "C", "G", "L", "M", "P", "T", "a", "c", "d", "e", "g", "h", "i", "k", "l", "m", "n", "o", "p", "r", "s", "t", "u", "v", "x">>

CharRank(c) == CHOOSE i \in 1..Len(Alphabet) : Alphabet[i] = c

\* a < b, for strings
RECURSIVE CharsLess(_, _)
CharsLess(a, b) ==
    IF b = <<>> THEN FALSE
    ELSE IF a = <<>> THEN TRUE
    ELSE IF Head(a) = Head(b) THEN CharsLess(Tail(a), Tail(b))
    ELSE CharRank(Head(a)) < CharRank(Head(b))

\* the length of the block that a from i and b from j have in common
RECURSIVE CommonPrefix(_, _, _, _)
CommonPrefix(a, b, i, j) ==
    IF i > Len(a) \/ j > Len(b) \/ a[i] # b[j] THEN 0
    ELSE 1 + CommonPrefix(a, b, i + 1, j + 1)

\* SequenceMatcher.find_longest_match: the longest block that a and b share,
\* the earliest in a and then the earliest in b, as [i, j, size]
LongestMatch(a, b) ==
    LET block == [i \in 1..Len(a), j \in 1..Len(b) |-> CommonPrefix(a, b, i, j)]
        at == CHOOSE p \in DOMAIN block :
                \A q \in DOMAIN block :
                    \/ block[q] < block[p]
                    \/ block[q] = block[p]
                       /\ (p[1] < q[1] \/ (p[1] = q[1] /\ p[2] <= q[2]))
    IN  [i |-> at[1], j |-> at[2], size |-> block[at]]

\* SequenceMatcher.get_matching_blocks: the characters in matching blocks
RECURSIVE MatchCount(_, _)
MatchCount(a, b) ==
    IF a = <<>> \/ b = <<>> THEN 0
    ELSE LET m == LongestMatch(a, b)
         IN  IF m.size = 0 THEN 0
             ELSE m.size
                  + MatchCount(SubSeq(a, 1, m.i - 1), SubSeq(b, 1, m.j - 1))
                  + MatchCount(SubSeq(a, m.i + m.size, Len(a)),
                               SubSeq(b, m.j + m.size, Len(b)))

\* SequenceMatcher.ratio() = 2.0 * matches / length, as [matches, length]
Ratio(a, b) == [matches |-> MatchCount(a, b), length |-> Len(a) + Len(b)]

\* ratio() >= cutoff, with cutoff=0.85
AtLeastCutoff(r) == r.length > 0 /\ 200 * r.matches >= 85 * r.length

\* (ratio, key) < (ratio, key): the order that heapq.nlargest sorts by
ScoreLess(r1, k1, r2, k2) ==
    \/ r1.matches * r2.length < r2.matches * r1.length
    \/ /\ r1.matches * r2.length = r2.matches * r1.length
       /\ CharsLess(Chars(k1), Chars(k2))

\* SequenceMatcher.real_quick_ratio(): an upper bound on ratio()
RealQuickRatio(a, b) == [matches |-> Min(Len(a), Len(b)), length |-> Len(a) + Len(b)]

\* heapq.nlargest(1, result): the key of the highest (ratio, key) among the
\* keys whose ratio reaches the cutoff, or "" when there is none
Closest(all_keys, ratio) ==
    LET close == {i \in DOMAIN ratio : AtLeastCutoff(ratio[i])}
    IN  IF close = {} THEN ""
        ELSE all_keys[CHOOSE i \in close : \A i2 \in close :
                        all_keys[i2] = all_keys[i]
                        \/ ScoreLess(ratio[i2], all_keys[i2], ratio[i], all_keys[i])]

\* difflib.get_close_matches(normalized, all_keys, n=1, cutoff=0.85): the
\* closest key, or "" when no key is close enough; a key whose
\* real_quick_ratio() is under the cutoff is dropped before ratio() is called
CloseMatch(normalized, all_keys) ==
    Closest(all_keys,
            [i \in 1..Len(all_keys) |->
                IF AtLeastCutoff(RealQuickRatio(Chars(all_keys[i]), normalized))
                THEN Ratio(Chars(all_keys[i]), normalized)
                ELSE [matches |-> 0, length |-> 1]])

\* the first key of a dict, in its order, that passes a test ("" when none)
FirstKey(keys, Passes(_)) ==
    LET hits == {i \in 1..Len(keys) : Passes(keys[i])}
    IN  IF hits = {} THEN "" ELSE keys[CHOOSE i \in hits : \A i2 \in hits : i <= i2]

SeqToSet(seq) == {seq[i] : i \in 1..Len(seq)}

\* CATALOG.get(id): the id, or "" for None
CatalogGet(id, keys) == IF id \in SeqToSet(keys) THEN id ELSE ""

\* "Exact match": normalized in CATALOG
ExactStep(normalized, keys) ==
    FirstKey(keys, LAMBDA k : Chars(k) = normalized)

\* "Alias match": normalized in ALIASES, as the alias
AliasStep(normalized, alias_keys) ==
    FirstKey(alias_keys, LAMBDA a : Chars(a) = normalized)

\* "Substring match", over the catalog: the key
SubstringStep(normalized, keys) ==
    FirstKey(keys, LAMBDA k : IsSubstring(Chars(k), normalized)
                                \/ IsSubstring(normalized, Chars(k)))

\* "Fuzzy match": the key or the alias that get_close_matches found
FuzzyStep(close, keys, aliases) ==
    IF close # "" /\ close \in SeqToSet(keys) THEN [id |-> close, step |-> "fuzzy"]
    ELSE IF close # "" THEN [id |-> CatalogGet(aliases[close], keys), step |-> "fuzzy"]
    ELSE [id |-> "", step |-> "none"]

\* the steps after normalisation, each on the result of its lookup
ResolveSteps(exact, alias, sub_key, sub_alias, close, keys, aliases) ==
    IF exact # "" THEN [id |-> exact, step |-> "exact"]
    ELSE IF alias # ""
         THEN [id |-> CatalogGet(aliases[alias], keys), step |-> "alias"]
    ELSE IF sub_key # "" THEN [id |-> sub_key, step |-> "substring"]
    ELSE IF sub_alias # ""
         THEN [id |-> CatalogGet(aliases[sub_alias], keys), step |-> "substring"]
    ELSE FuzzyStep(close, keys, aliases)

\* the lookups of the four steps, on the normalized name
ResolveNormalized(normalized, keys, alias_keys, aliases) ==
    ResolveSteps(ExactStep(normalized, keys), AliasStep(normalized, alias_keys),
                 SubstringStep(normalized, keys), SubstringStep(normalized, alias_keys),
                 CloseMatch(normalized, keys \o alias_keys), keys, aliases)

\* the steps of resolve_model and of resolve_client, over the keys of a
\* catalog and its aliases: the id found ("" for None) and the step that
\* returned
ResolveId(raw, keys, alias_keys, aliases) ==
    IF raw = "" THEN [id |-> "", step |-> "empty"]
    ELSE ResolveNormalized(Normalized(raw), keys, alias_keys, aliases)

\* resolve_model
ResolveModel(raw) ==
    LET r == ResolveId(raw, MODEL_KEYS, MODEL_ALIAS_KEYS, MODEL_ALIASES)
    IN  IF r.id = "" THEN NoModel ELSE MODEL_CATALOG[r.id]

\* ClientSpec, with tips as their length
ClientSpec(id, max_context, hooks, memory, background, tips) ==
    [id |-> id, max_context |-> max_context, has_hooks |-> hooks,
     has_memory |-> memory, has_background_agents |-> background,
     tips |-> Items("client_tip", tips)]

\* resolve_client's None
NoClient == ClientSpec("", 0, FALSE, FALSE, FALSE, 0)

\* the entries of CLIENT_CATALOG the model draws from
CLIENT_CATALOG ==
    [id \in {"claude-code", "codex-cli", "cursor", "cline"} |->
        CASE id = "claude-code" -> ClientSpec(id, 200000, TRUE, FALSE, TRUE, 4)
          [] id = "codex-cli" -> ClientSpec(id, 128000, FALSE, FALSE, FALSE, 3)
          [] id = "cursor" -> ClientSpec(id, 200000, FALSE, FALSE, FALSE, 3)
          [] id = "cline" -> ClientSpec(id, 0, TRUE, FALSE, FALSE, 3)]

\* CLIENT_CATALOG.keys(), in the order of the dict
CLIENT_KEYS == <<"claude-code", "codex-cli", "cursor", "cline">>

\* the entries of _CLIENT_ALIASES the model draws from
CLIENT_ALIASES ==
    [a \in {"claude code", "codex", "anthropic"} |->
        CASE a = "claude code" -> "claude-code"
          [] a = "codex" -> "codex-cli"
          [] a = "anthropic" -> "claude-code"]

\* _CLIENT_ALIASES.keys(), in the order of the dict
CLIENT_ALIAS_KEYS == <<"claude code", "codex", "anthropic">>

\* a client name that no step of resolve_client matches
UnlistedClient == "acme-ide"

ClientNames == {"", "claude-code", "codex-cli", "cline", UnlistedClient}

\* resolve_client
ResolveClient(raw) ==
    LET r == ResolveId(raw, CLIENT_KEYS, CLIENT_ALIAS_KEYS, CLIENT_ALIASES)
    IN  IF r.id = "" THEN NoClient ELSE CLIENT_CATALOG[r.id]

\* the names that resolve_model and resolve_client are called with
ModelInputs ==
    {"",
     "glm",
     "GLM",
     " glm ",
     "gl",
     "glm-9",
     "glm-4.6-air",
     "gemini",
     "gemin",
     "gemini-2.5-pr0",
     "opus",
     "GPT-4o",
     "mistral-small",
     "small",
     "llama-4-maverick",
     "maverick",
     "acme-9000",
     "glm5",
     "GLM-5",
     "claude",
     "g"}

ClientInputs ==
    {"",
     "cursor",
     "Cursor",
     "cursor-ide",
     "cur",
     "curs0r",
     "claude-code",
     "claude code",
     "claude",
     "claude-kode",
     "claud-code",
     "codex",
     "codex-cli",
     "code",
     "cline",
     "Cline",
     "acme-ide",
     "anthropic",
     "c"}

\* the catalog that a call resolves in
KeysOf(kind) == IF kind = "model" THEN MODEL_KEYS ELSE CLIENT_KEYS
AliasKeysOf(kind) == IF kind = "model" THEN MODEL_ALIAS_KEYS ELSE CLIENT_ALIAS_KEYS
AliasesOf(kind) == IF kind = "model" THEN MODEL_ALIASES ELSE CLIENT_ALIASES

\* return: the call is over (id "" for None)
Returned(id, step) == [resolving EXCEPT !.at = "done", !.id = id, !.step = step]

\* "if not raw: return None", then the exact match
ResolveExact ==
    /\ resolving.at = "called"
    /\ LET hit == ExactStep(Normalized(resolving.raw), KeysOf(resolving.kind))
       IN  resolving' =
             IF resolving.raw = "" THEN Returned("", "empty")
             ELSE IF hit # "" THEN Returned(hit, "exact")
             ELSE [resolving EXCEPT !.at = "alias"]
    /\ UNCHANGED notNameVars

\* the alias match
ResolveAlias ==
    /\ resolving.at = "alias"
    /\ LET hit == AliasStep(Normalized(resolving.raw), AliasKeysOf(resolving.kind))
       IN  resolving' =
             IF hit # ""
             THEN Returned(CatalogGet(AliasesOf(resolving.kind)[hit],
                                      KeysOf(resolving.kind)), "alias")
             ELSE [resolving EXCEPT !.at = "substring"]
    /\ UNCHANGED notNameVars

\* the substring match: over the catalog, then over the aliases
ResolveSubstring ==
    /\ resolving.at = "substring"
    /\ LET normalized == Normalized(resolving.raw)
           key == SubstringStep(normalized, KeysOf(resolving.kind))
           alias == SubstringStep(normalized, AliasKeysOf(resolving.kind))
       IN  resolving' =
             IF key # "" THEN Returned(key, "substring")
             ELSE IF alias # ""
             THEN Returned(CatalogGet(AliasesOf(resolving.kind)[alias],
                                      KeysOf(resolving.kind)), "substring")
             ELSE [resolving EXCEPT !.at = "fuzzy"]
    /\ UNCHANGED notNameVars

\* the fuzzy match, and the final return None
ResolveFuzzy ==
    /\ resolving.at = "fuzzy"
    /\ LET keys == KeysOf(resolving.kind)
           close == CloseMatch(Normalized(resolving.raw),
                               keys \o AliasKeysOf(resolving.kind))
       IN  resolving' =
             IF close # "" /\ close \in SeqToSet(keys) THEN Returned(close, "fuzzy")
             ELSE IF close # ""
             THEN Returned(CatalogGet(AliasesOf(resolving.kind)[close], keys), "fuzzy")
             ELSE Returned("", "none")
    /\ UNCHANGED notNameVars

\* no call of resolve_model or resolve_client under way
NamesIdle == resolving = [kind |-> "model", raw |-> "", at |-> "done", id |-> "", step |-> "empty"]

\* any call of resolve_model or resolve_client
NamesInit ==
    resolving \in [kind : {"model"}, raw : ModelInputs, at : {"called"}, id : {""}, step : {""}]
                  \cup [kind : {"client"}, raw : ClientInputs, at : {"called"},
                        id : {""}, step : {""}]

\* MCP_TOOLS, by name
MCP_TOOLS ==
    <<"search_knowledge", "semantic_search", "get_skill", "list_skills",
      "get_protocol", "hive_status", "memory_stats", "research_youtube",
      "pool_signal", "pool_status", "episodic_search", "episodic_store",
      "chunk_code", "agent_handshake">>

\* the words a profile of the model is made of
ProfileWords == {"vector", "search", "memory", "test", "python"}

\* kw in tool_text: the words of ProfileWords that occur in a tool's
\* description and tags ("search" occurs in "research")
ToolText(name) ==
    CASE name = "search_knowledge" -> {"search"}
      [] name = "semantic_search" -> {"vector", "search"}
      [] name = "memory_stats" -> {"memory", "vector"}
      [] name = "research_youtube" -> {"search"}
      [] name = "episodic_search" -> {"search", "memory"}
      [] name = "episodic_store" -> {"memory"}
      [] OTHER -> {}

\* GUARDRAILS, each list by its length
GUARDRAILS ==
    [universal |-> 5, small_context |-> 3, no_tools |-> 2, no_vision |-> 1,
     no_structured |-> 1, no_hooks |-> 2, no_memory |-> 2, no_background |-> 2]

\* GUARDRAILS["tier_specific"], each list by its length
TIER_GUARDRAILS ==
    [t \in {"community", "paid", "premium", "admin", "owner"} |->
        IF t = "owner" THEN 1 ELSE 2]

\* _get_generic_cli_profile
GenericCliProfile ==
    [id |-> "generic", instructions |-> Items("instruction", 4),
     allowed |-> {"*"}, denied |-> {}]

\* a profile of config/cli_profiles.json that restricts the tools
RestrictedCliProfile ==
    [id |-> "codex-cli", instructions |-> Items("instruction", 3),
     allowed |-> {"search_knowledge", "semantic_search", "list_skills", "get_skill"},
     denied |-> {"get_skill"}]

\* config/cli_profiles.json: missing, or with a profile for one client
CliProfileFiles ==
    {[id \in {} |-> GenericCliProfile], [id \in {"codex-cli"} |-> RestrictedCliProfile]}

\* load_cli_profile
LoadCliProfile(client_id, profiles) ==
    IF client_id = "" THEN GenericCliProfile
    ELSE LET normalized == Lower(client_id)
             spec == ResolveClient(normalized)
         IN  IF normalized \in DOMAIN profiles THEN profiles[normalized]
             ELSE IF spec # NoClient /\ spec.id \in DOMAIN profiles
                  THEN profiles[spec.id]
                  ELSE GenericCliProfile

DEFAULT_CONTEXT == 128000
CONTEXT_CAP == 10000000
SMALL_MAX == 32000
MEDIUM_MAX == 128000

SetMin(S) == CHOOSE x \in S : \A y \in S : x <= y

\* a window that counts whenever it is not zero
CountsWhenNonZero(window) == window # 0

\* if profile.context_window > 0: the window takes part in the minimum
Counts(window) == window > 0

\* _compute_context_budget
ComputeContextBudget(profile, model_spec, client_spec) ==
    LET windows ==
            (IF Counts(profile.context_window) THEN {profile.context_window} ELSE {})
            \cup (IF model_spec # NoModel /\ Counts(model_spec.context_window)
                  THEN {model_spec.context_window} ELSE {})
            \cup (IF client_spec # NoClient /\ Counts(client_spec.max_context)
                  THEN {client_spec.max_context} ELSE {})
        effective == Min(IF windows # {} THEN SetMin(windows) ELSE DEFAULT_CONTEXT,
                         CONTEXT_CAP)
    IN  [effective_window |-> effective,
         tier |-> IF effective <= SMALL_MAX THEN "small"
                  ELSE IF effective <= MEDIUM_MAX THEN "medium" ELSE "large"]

\* _rank_tools
RankTools(profile, cli_profile) ==
    LET all_keywords == profile.project_goal \o profile.languages \o profile.frameworks
        allow_all == "*" \in cli_profile.allowed
        kept == SelectSeq(MCP_TOOLS, LAMBDA name :
                    /\ name \notin cli_profile.denied
                    /\ allow_all \/ name \in cli_profile.allowed)
        score == [name \in {MCP_TOOLS[i] : i \in 1..Len(MCP_TOOLS)} |->
                    Cardinality({i \in 1..Len(all_keywords) :
                                    Lower(all_keywords[i]) \in ToolText(name)})
                    + (IF name \in {"search_knowledge", "semantic_search", "list_skills"}
                       THEN 3 ELSE 0)]
    IN  SelectSeq(SortDesc(kept, score), LAMBDA name : name # "agent_handshake")

\* the most skills and chunks the model's directories hold for a profile
MaxSkillsFound == 16
MaxChunksFound == 6

SKILLS_CAP == 15
CHUNKS_CAP == 5

\* _find_skills: on_disk is the number of skills that the three layers, or
\* else the fallback list, find on disk for the profile
FindSkills(on_disk) == Items("skill", Min(on_disk, SKILLS_CAP))

GenericGoals == {"test", "testing", "hello", "demo", "example", "prueba"}

\* _find_chunks: on_disk is the number of chunks that the semantic search, or
\* else the keyword search, finds for the goal
FindChunks(profile, on_disk) ==
    IF profile.project_goal = <<>> \/ Lower(profile.project_goal[1]) \in GenericGoals
    THEN <<>>
    ELSE Items("chunk", Min(on_disk, CHUNKS_CAP))

\* _build_guardrails
BuildGuardrails(profile, model_spec, client_spec) ==
    LET part(on, list) == IF on THEN Items(list, GUARDRAILS[list]) ELSE <<>>
        m == model_spec # NoModel
        c == client_spec # NoClient
    IN  part(TRUE, "universal")
        \o part(m /\ model_spec.context_window <= 32000, "small_context")
        \o part(m /\ ~model_spec.supports_tools, "no_tools")
        \o part(m /\ ~model_spec.supports_vision, "no_vision")
        \o part(m /\ ~model_spec.supports_structured, "no_structured")
        \o part(c /\ ~client_spec.has_hooks, "no_hooks")
        \o part(c /\ ~client_spec.has_memory, "no_memory")
        \o part(c /\ ~client_spec.has_background_agents, "no_background")
        \o (IF Lower(profile.tier) \in DOMAIN TIER_GUARDRAILS
            THEN Items("tier_specific", TIER_GUARDRAILS[Lower(profile.tier)])
            ELSE <<>>)

\* AgentProfile, as agent_handshake builds it (tier keeps its default)
AgentProfile(model, context_window, client, languages, project_goal) ==
    [model |-> model, context_window |-> context_window, client |-> client,
     languages |-> languages, frameworks |-> <<>>,
     project_goal |-> project_goal, tier |-> "community"]

\* the config of a handshake that did not get that far
NoConfig ==
    [model_spec |-> NoModel, client_spec |-> NoClient,
     cli_profile |-> GenericCliProfile, recommended_tools |-> <<>>,
     relevant_skills |-> <<>>, relevant_chunks |-> <<>>, guardrails |-> <<>>,
     model_tips |-> <<>>, client_tips |-> <<>>,
     context_budget |-> [effective_window |-> 0, tier |-> "medium"]]

\* generate_config
GenerateConfig(profile, env) ==
    LET model_spec == ResolveModel(profile.model)
        client_spec == ResolveClient(profile.client)
        cli_profile == LoadCliProfile(IF client_spec # NoClient THEN client_spec.id
                                      ELSE profile.client, env.cli_profiles)
    IN  [model_spec |-> model_spec, client_spec |-> client_spec,
         cli_profile |-> cli_profile,
         recommended_tools |-> RankTools(profile, cli_profile),
         relevant_skills |-> FindSkills(env.skills),
         relevant_chunks |-> FindChunks(profile, env.chunks),
         guardrails |-> BuildGuardrails(profile, model_spec, client_spec),
         model_tips |-> model_spec.tips,
         client_tips |-> client_spec.tips,
         context_budget |-> ComputeContextBudget(profile, model_spec, client_spec)]

\* the text of a handshake that was not rendered
NoRendered ==
    [top_tools |-> <<>>, more_tools |-> <<>>, instructions |-> <<>>,
     skills |-> <<>>, chunks |-> <<>>, previews |-> FALSE,
     guardrails |-> <<>>, tips |-> <<>>]

\* format_config: the items each section of the text lists
FormatConfig(config) ==
    LET tier == config.context_budget.tier
        all_tools == config.recommended_tools
        extra_tools == SubSeq(all_tools, 6, Len(all_tools))
        all_tips == config.model_tips \o config.client_tips
    IN  [top_tools |-> Take(all_tools, 5),
         more_tools |->
            IF tier # "small" /\ Len(all_tools) > 5
            THEN IF tier = "medium" THEN Take(extra_tools, 5) ELSE extra_tools
            ELSE <<>>,
         instructions |->
            IF tier = "small" THEN Take(config.cli_profile.instructions, 2)
            ELSE config.cli_profile.instructions,
         skills |->
            IF tier = "small" THEN Take(config.relevant_skills, 2)
            ELSE IF tier = "medium" THEN Take(config.relevant_skills, 5)
            ELSE config.relevant_skills,
         chunks |->
            Take(config.relevant_chunks,
                 IF tier = "small" THEN 1 ELSE IF tier = "medium" THEN 2 ELSE 5),
         previews |-> tier = "large" /\ config.relevant_chunks # <<>>,
         guardrails |->
            IF tier = "small" THEN Take(config.guardrails, 3) ELSE config.guardrails,
         tips |->
            IF tier = "small" THEN Take(all_tips, 2)
            ELSE IF tier = "medium" THEN Take(all_tips, 5)
            ELSE all_tips]

NoShake == [stage |-> "called", config |-> NoConfig, rendered |-> NoRendered]

\* agent_handshake, first half: config = generate_config(profile)
ShakeGenerate ==
    /\ shake.stage = "called"
    /\ shake' = [shake EXCEPT !.stage = "config",
                              !.config = GenerateConfig(shake_in.profile, shake_in.env)]
    /\ UNCHANGED shake_in
    /\ UNCHANGED notShakeVars

\* agent_handshake, second half: return format_config(config, profile)
ShakeFormat ==
    /\ shake.stage = "config"
    /\ shake' = [shake EXCEPT !.stage = "rendered",
                              !.rendered = FormatConfig(shake.config)]
    /\ UNCHANGED shake_in
    /\ UNCHANGED notShakeVars

\* the context windows a caller declares
ContextWindows == {-1, 0, 8000, 32000, 32001, 128000, 128001, 20000000}

\* the calls of agent_handshake and the files they find
ShakeInputs ==
    [profile : {AgentProfile(m, w, c, l, g) :
                    m \in ModelNames, w \in ContextWindows, c \in ClientNames,
                    l \in {<<>>, <<"python">>},
                    g \in {<<>>, <<"test">>, <<"vector", "search", "memory">>}},
     env : [cli_profiles : CliProfileFiles,
            skills : {0, 3, MaxSkillsFound},
            chunks : {0, 3, MaxChunksFound}]]

\* agent_handshake() without arguments, on a deployment without files
ShakeIdle ==
    /\ shake_in = [profile |-> AgentProfile("", 0, "", <<>>, <<>>),
                   env |-> [cli_profiles |-> [id \in {} |-> GenericCliProfile],
                            skills |-> 0, chunks |-> 0]]
    /\ shake = NoShake

\* any call of agent_handshake
ShakeInit ==
    /\ shake_in \in ShakeInputs
    /\ shake = NoShake

(***************************************************************************)
(* vector_store.py: refresh_chunk and archive_chunk.  A row's decay is     *)
(* "unset" while the row has no decay_score (the column is missing, or the *)
(* row was added after the column appeared), "scored" once                 *)
(* batch_rescore_decay computed it, "archived" for the sentinel -1.0.      *)
(***************************************************************************)

\* the texts of the chunks and the prefixes of the calls, by their characters
TextChars(t) ==
    CASE t = "alpha" -> <<"a", "l", "p", "h", "a">>
      [] t = "beta" -> <<"b", "e", "t", "a">>
      [] t = "al" -> <<"a", "l">>
      [] t = "gamma" -> <<"g", "a", "m", "m", "a">>
      [] OTHER -> <<>>

PREFIX_LEN == 100
REFRESH_LIMIT == 200
ARCHIVE_LIMIT == 500

\* the most refreshes the model counts on one chunk
MaxAccess == 2

\* a table that store_wisdom_chunk's items created has the columns text,
\* vector, source, timestamp and metadata; decay_score, last_accessed and
\* access_count appear when batch_rescore_decay rewrites the table
HasDecayColumns(rows) == \E i \in 1..Len(rows) : rows[i].decay # "unset"

\* (r.get("text", "") or "").startswith(text_prefix[:100])
PrefixMatches(text, text_prefix) ==
    StartsWith(TextChars(text), Take(TextChars(text_prefix), PREFIX_LEN))

\* tbl.search().limit(limit).to_list() and the loop to the first row that
\* matches: its index, or 0 when no row matches
FirstMatch(rows, text_prefix, limit) ==
    LET hits == {i \in 1..Min(Len(rows), limit) : PrefixMatches(rows[i].text, text_prefix)}
    IN  IF hits = {} THEN 0 ELSE SetMin(hits)

\* tbl.update(where="source = '...'", values=...): on every row of the source
UpdateWhereSource(rows, source, Change(_)) ==
    [i \in 1..Len(rows) |-> IF rows[i].source = source THEN Change(rows[i]) ELSE rows[i]]

NoChunkOp ==
    [op |-> "none", prefix |-> "", hit |-> 0, text |-> "", returned |-> FALSE,
     base |-> 0, count |-> 0, streak |-> 0]

\* what a call that matched row hit leaves in chunk_op; streak counts the
\* refresh_chunk calls with this prefix that followed each other on the same
\* chunk with no other change of its access_count between them, base is the
\* access_count of the chunk before the first of them
ChunkOutcome(op, prefix, hit, returned, rows_after) ==
    LET again == /\ op = "refresh" /\ chunk_op.op = "refresh"
                 /\ chunk_op.prefix = prefix /\ chunk_op.streak = 1
                 /\ chunk_op.hit = hit /\ hit # 0
                 /\ table.rows[hit].text = chunk_op.text
                 /\ table.rows[hit].access_count = chunk_op.count
        before == IF hit = 0 THEN 0 ELSE table.rows[hit].access_count
    IN  [op |-> op, prefix |-> prefix, hit |-> hit,
         text |-> IF hit = 0 THEN "" ELSE table.rows[hit].text,
         returned |-> returned,
         base |-> IF again THEN chunk_op.base ELSE before,
         count |-> IF hit = 0 THEN 0 ELSE rows_after[hit].access_count,
         streak |-> IF op = "refresh" /\ hit # 0 THEN (IF again THEN 2 ELSE 1) ELSE 0]

\* VectorStore.refresh_chunk(text_prefix): the update raises, and is passed
\* over, while the table has no access_count column
RefreshChunk(text_prefix) ==
    LET hit == IF table.exists THEN FirstMatch(table.rows, text_prefix, REFRESH_LIMIT)
               ELSE 0
        ac == table.rows[hit].access_count + 1
        rows_after ==
            IF hit # 0 /\ HasDecayColumns(table.rows)
            THEN UpdateWhereSource(table.rows, table.rows[hit].source,
                                   LAMBDA r : [r EXCEPT !.access_count = ac])
            ELSE table.rows
    IN  /\ hit # 0 => table.rows[hit].access_count < MaxAccess
        /\ table' = [table EXCEPT !.rows = rows_after]
        /\ chunk_op' = ChunkOutcome("refresh", text_prefix, hit, hit # 0, rows_after)
        /\ UNCHANGED <<archive_log, archived>>
        /\ UNCHANGED <<query_cache, rescore, added, found>>
        /\ UNCHANGED notStoreChunkVars

\* VectorStore.archive_chunk(text_prefix); log_ok = FALSE is an archive log
\* that cannot be opened or written: the outer except returns False
ArchiveChunk(text_prefix, log_ok) ==
    LET hit == IF table.exists THEN FirstMatch(table.rows, text_prefix, ARCHIVE_LIMIT)
               ELSE 0
        updates == hit # 0 /\ HasDecayColumns(table.rows)
        rows_after ==
            IF updates
            THEN UpdateWhereSource(table.rows, table.rows[hit].source,
                                   LAMBDA r : [r EXCEPT !.decay = "archived"])
            ELSE table.rows
    IN  /\ table' = [table EXCEPT !.rows = rows_after]
        /\ archived' =
              IF updates
              THEN archived \cup {table.rows[i].text :
                                    i \in {i \in 1..Len(table.rows) :
                                             table.rows[i].source = table.rows[hit].source}}
              ELSE archived
        /\ archive_log' = IF hit # 0 /\ log_ok
                          THEN archive_log \cup {table.rows[hit].text}
                          ELSE archive_log
        /\ chunk_op' = ChunkOutcome("archive", text_prefix, hit, hit # 0 /\ log_ok,
                                    rows_after)
        /\ UNCHANGED <<query_cache, rescore, added, found>>
        /\ UNCHANGED notStoreChunkVars

ChunksInit ==
    /\ chunk_op = NoChunkOp
    /\ archive_log = {}
    /\ archived = {}

(***************************************************************************)
(* vector_store.py: get_query_embedding and its cache                      *)
(***************************************************************************)

QUERY_EMBEDDING_CACHE_TTL == 300

\* the capacity of the model's cache, for _QUERY_EMBEDDING_CACHE_MAX = 100
QueryEmbeddingCacheMax == 2

\* the latest second of the model's clock
MaxNow == 302

\* expand_query: the query, and the expansion appended to it ("" when the
\* query holds no term of the expansions dict)
ExpandQuery(query) ==
    <<query, CASE query \in {"docker", "Docker"} ->
                    "Docker container image compose kubernetes deployment"
               [] query = "rag" ->
                    "RAG retrieval augmented generation vector embeddings search"
               [] OTHER -> "">>

\* the positions of a text in the cache (at most one)
CachedAt(cache, text) == {i \in 1..Len(cache) : cache[i].text = text}

\* del _QUERY_EMBEDDING_CACHE[text]
CacheDel(cache, text) == SelectSeq(cache, LAMBDA e : e.text # text)

\* min(_QUERY_EMBEDDING_CACHE, key=lambda k: _QUERY_EMBEDDING_CACHE[k][0]):
\* the first key, in the order of the dict, with the smallest timestamp
OldestKey(cache) ==
    cache[CHOOSE i \in 1..Len(cache) :
            /\ \A j \in 1..Len(cache) : cache[i].ts <= cache[j].ts
            /\ \A j \in 1..(i - 1) : cache[j].ts > cache[i].ts].text

NoQueryEmbedding ==
    [text |-> <<>>, hit |-> FALSE, evicted |-> <<>>, returned |-> FALSE, before |-> <<>>]

\* get_query_embedding(query); ok = FALSE is a missing client or a provider
\* call that raises: None is returned and nothing is cached
GetQueryEmbedding(query, ok) ==
    LET text == ExpandQuery(query)
        at == CachedAt(query_embedding_cache, text)
        fresh == at # {} /\ \E i \in at :
                    now - query_embedding_cache[i].ts < QUERY_EMBEDDING_CACHE_TTL
        kept == IF at # {} /\ ~fresh THEN CacheDel(query_embedding_cache, text)
                ELSE query_embedding_cache
        full == Len(kept) >= QueryEmbeddingCacheMax
        oldest == IF full THEN OldestKey(kept) ELSE <<>>
        base == [NoQueryEmbedding EXCEPT !.text = text, !.before = query_embedding_cache]
    IN  /\ IF fresh
           THEN /\ query_embedding' = [base EXCEPT !.hit = TRUE, !.returned = TRUE]
                /\ served' = Put(served, text, now)
                /\ UNCHANGED query_embedding_cache
           ELSE IF ~ok
           THEN /\ query_embedding' = base
                /\ query_embedding_cache' = kept
                /\ UNCHANGED served
           ELSE /\ query_embedding' = [base EXCEPT !.returned = TRUE, !.evicted = oldest]
                /\ query_embedding_cache' =
                      Append(IF full THEN CacheDel(kept, oldest) ELSE kept,
                             [text |-> text, ts |-> now])
                /\ served' = Put(served, text, now)
        /\ UNCHANGED now
        /\ UNCHANGED notQueryVars

\* time.time() advances by d seconds
QueryTick(d) ==
    /\ now + d <= MaxNow
    /\ now' = now + d
    /\ UNCHANGED <<query_embedding_cache, query_embedding, served>>
    /\ UNCHANGED notQueryVars

QueryInit ==
    /\ query_embedding_cache = <<>>
    /\ now = 0
    /\ query_embedding = NoQueryEmbedding
    /\ served = EmptyMap

(***************************************************************************)
(* circuit_breaker.py: record_failure, record_success, _block_mission and  *)
(* _activate_phoenix, on the state that _save_state persists.  The Claude  *)
(* Sword is never loaded (_get_sword returns None); the files that Phoenix *)
(* moves or writes, the log and last_activity are left out, and            *)
(* total_recoveries moves with phoenix_activations.                        *)
(***************************************************************************)

MAX_CONSECUTIVE_FAILURES == 3
PHOENIX_THRESHOLD == 5

\* the missions of the calls, and missions that earlier runs left blocked
Missions == {"m1", "m2", "m3"}
OldBlocked == <<"old1", "old2", "old3">>

\* the most failures in a row, and the most Phoenix resets, the model follows
MaxStreak == 6
MaxPhoenix == 2

\* a block that waits for one failure more
ShouldBlockLate(count) == count > MAX_CONSECUTIVE_FAILURES

\* if count >= MAX_CONSECUTIVE_FAILURES
ShouldBlock(count) == count >= MAX_CONSECUTIVE_FAILURES

\* del self.state["mission_failures"][mission_id], when it is there
Forget(failures, mission_id) ==
    [m \in DOMAIN failures \ {mission_id} |-> failures[m]]

\* _block_mission's append, when the mission is not in the list
WithBlocked(blocked, mission_id) ==
    IF mission_id \in SeqToSet(blocked) THEN blocked ELSE Append(blocked, mission_id)

NoRecorded ==
    [op |-> "none", mission |-> "", returned |-> FALSE, nth |-> 0, run |-> 0,
     was_blocked |-> FALSE, phoenix |-> FALSE]

\* record_failure(mission_id), with _block_mission and _activate_phoenix
RecordFailure(mission_id) ==
    LET count == (IF mission_id \in DOMAIN mission_failures
                  THEN mission_failures[mission_id] ELSE 0) + 1
        blocks == ShouldBlock(count)
        blocked == WithBlocked(blocked_missions, mission_id)
        phoenix == blocks /\ Len(blocked) >= PHOENIX_THRESHOLD
    IN  /\ streak[mission_id] < MaxStreak
        /\ phoenix_activations < MaxPhoenix
        /\ mission_failures' =
              IF phoenix THEN EmptyMap
              ELSE IF blocks THEN Forget(mission_failures, mission_id)
              ELSE Put(mission_failures, mission_id, count)
        /\ blocked_missions' =
              IF phoenix THEN <<>> ELSE IF blocks THEN blocked ELSE blocked_missions
        /\ phoenix_activations' = phoenix_activations + (IF phoenix THEN 1 ELSE 0)
        /\ recorded' = [op |-> "failure", mission |-> mission_id, returned |-> blocks,
                        nth |-> streak[mission_id] + 1, run |-> since[mission_id] + 1,
                        was_blocked |-> mission_id \in SeqToSet(blocked_missions),
                        phoenix |-> phoenix]
        /\ streak' = [streak EXCEPT ![mission_id] = @ + 1]
        /\ since' = IF phoenix THEN [m \in Missions |-> 0]
                    ELSE [since EXCEPT ![mission_id] = IF blocks THEN 0 ELSE @ + 1]
        /\ UNCHANGED notBreakerVars

\* record_success(mission_id)
RecordSuccess(mission_id) ==
    /\ mission_failures' = Forget(mission_failures, mission_id)
    /\ recorded' = [NoRecorded EXCEPT !.op = "success", !.mission = mission_id,
                                      !.was_blocked =
                                          mission_id \in SeqToSet(blocked_missions)]
    /\ streak' = [streak EXCEPT ![mission_id] = 0]
    /\ since' = [since EXCEPT ![mission_id] = 0]
    /\ UNCHANGED <<blocked_missions, phoenix_activations>>
    /\ UNCHANGED notBreakerVars

\* _load_state on a deployment without a state file
BreakerIdle ==
    /\ mission_failures = EmptyMap
    /\ blocked_missions = <<>>
    /\ phoenix_activations = 0
    /\ recorded = NoRecorded
    /\ streak = [m \in Missions |-> 0]
    /\ since = [m \in Missions |-> 0]

\* _load_state: no state file, or the file of a run that blocked missions
BreakerInit ==
    /\ mission_failures = EmptyMap
    /\ blocked_missions \in {<<>>, OldBlocked}
    /\ phoenix_activations = 0
    /\ recorded = NoRecorded
    /\ streak = [m \in Missions |-> 0]
    /\ since = [m \in Missions |-> 0]

(***************************************************************************)
(* Specifications                                                          *)
(***************************************************************************)

\* a fresh deployment: no key or usage file, ApiKeyMiddleware.__init__, and
\* a store whose table was not created yet
Init ==
    GateInit /\ StoreInit /\ EmbedInit /\ KeyOpsInit /\ ToolsInit /\ ShakeIdle /\ NamesIdle
        /\ ChunksInit /\ QueryInit /\ BreakerIdle /\ TwinInit

DirectHost == <<"midos.dev">>
LocalHost == <<"localhost", "8419">>

Headers(xff, real_ip, host, authorization) ==
    [xff |-> xff, real_ip |-> real_ip, host |-> host, authorization |-> authorization]

\* this month's check_and_increment calls, over all identifiers
TotalCalls == SumOver(DOMAIN hist, [id \in DOMAIN hist |-> hist[id].calls])

\* ---- the gate: tier gating and key revocation ----

\* one tool of each class: free and community, community but not free,
\* free though pro, pro, admin
GateTools ==
    {"search_knowledge", "get_skill", "get_eureka", "semantic_search", "pool_signal"}

\* direct connections to the public host or to localhost, with no key, a
\* generated key or a key that was never generated
GateHeaders ==
    {Headers(<<>>, "", hs, a) :
        hs \in {DirectHost, LocalHost},
        a \in {<<>>} \cup {<<"Bearer", k>> : k \in KeyPool \cup {UnknownKey}}}

\* the tools/call requests a month of the gate's specification admits to the
\* quota check
GateCalls == 2

GateCall ==
    /\ TotalCalls < GateCalls
    /\ \E tool \in GateTools, h \in GateHeaders : OnCallTool(tool, h, TRUE)

GateGenerate == \E tier \in TierNames : GenerateKey(tier)

GateRevoke == \E key \in KeyPool \cup {UnknownKey} : RevokeKey(key)

GateTick == Tick(CACHE_TTL + 1)

NextGate == GateCall \/ GateGenerate \/ GateRevoke \/ GateTick

SpecGate == Init /\ [][NextGate]_vars

\* ---- the quota ledger ----

\* an anonymous caller, the same caller through the localhost bypass (both
\* are counted under anon_ + sha256("anonymous")), and the holder of a key
QuotaHeaders ==
    {Headers(<<>>, "", DirectHost, a) : a \in {<<>>} \cup {<<"Bearer", k>> : k \in KeyPool}}
        \cup {Headers(<<>>, "", LocalHost, <<>>)}

QuotaCall == \E h \in QuotaHeaders : OnCallTool("search_knowledge", h, TRUE)

QuotaTick == Tick(FLUSH_INTERVAL + 1)

NextQuota == QuotaCall \/ GateGenerate \/ QuotaTick \/ NewMonth

SpecQuota == Init /\ [][NextQuota]_vars

\* ---- the quota ledger with failing flushes and restarts ----

\* a remote caller behind a proxy (free) and a caller on localhost (pro),
\* counted under different anonymous identifiers
LedgerHeaders ==
    {Headers(<<"10.0.0.1">>, "", DirectHost, <<>>), Headers(<<>>, "", LocalHost, <<>>)}

LedgerCall ==
    \E h \in LedgerHeaders, write_ok \in BOOLEAN :
        OnCallTool("search_knowledge", h, write_ok)

NextLedger == LedgerCall \/ QuotaTick \/ NewMonth \/ Restart

SpecLedger == Init /\ [][NextLedger]_vars

\* ---- the key store under concurrent generate_key and revoke_key ----

KeysGenerateLoad ==
    \E p \in Procs, key \in FreshKeys, tier \in TierNames : GenerateKeyLoad(p, key, tier)

KeysGenerateSave == \E p \in Procs : GenerateKeySave(p)

KeysRevokeLoad == \E p \in Procs, key \in FreshKeys : RevokeKeyLoad(p, key)

KeysRevokeSave == \E p \in Procs : RevokeKeySave(p)

NextKeys == KeysGenerateLoad \/ KeysGenerateSave \/ KeysRevokeLoad \/ KeysRevokeSave

SpecKeys == Init /\ [][NextKeys]_vars

\* ---- the tool handlers behind the gate ----

\* a remote caller without a key (free) and a caller on localhost (pro)
ToolHeaders ==
    {Headers(<<"10.0.0.1">>, "", DirectHost, <<>>), Headers(<<>>, "", LocalHost, <<>>)}

ToolsGetSkill == \E h \in ToolHeaders, name \in SkillNames : CallGetSkill(h, name)

ToolsResearchYoutube == \E h \in ToolHeaders, url \in Urls : CallResearchYoutube(h, url)

NextTools == ToolsGetSkill \/ ToolsResearchYoutube \/ ClockTick

SpecTools == Init /\ [][NextTools]_vars

\* ---- agent_handshake, over the profiles ----

InitHandshake ==
    GateInit /\ StoreInit /\ EmbedInit /\ KeyOpsInit /\ ToolsInit /\ ShakeInit
        /\ NamesIdle /\ ChunksInit /\ QueryInit /\ BreakerIdle /\ TwinInit

\* ---- resolve_model and resolve_client, over the names ----

InitNames ==
    GateInit /\ StoreInit /\ EmbedInit /\ KeyOpsInit /\ ToolsInit /\ ShakeIdle
        /\ NamesInit /\ ChunksInit /\ QueryInit /\ BreakerIdle /\ TwinInit

NextNames == ResolveExact \/ ResolveAlias \/ ResolveSubstring \/ ResolveFuzzy

SpecNames == InitNames /\ [][NextNames]_vars

NextHandshake == ShakeGenerate \/ ShakeFormat

SpecHandshake == InitHandshake /\ [][NextHandshake]_vars

\* ---- tier resolution, over the shapes of the headers ----

ResolveHeaders ==
    {Headers(xff, real_ip, host, a) :
        xff \in {<<>>, <<"127.0.0.1">>, <<"10.0.0.1">>, <<"10.0.0.1", "127.0.0.1">>},
        real_ip \in {"", "::1", "10.0.0.2"},
        host \in {<<>>, DirectHost, LocalHost},
        a \in {<<>>, <<RandomToken>>, <<"Basic", "midos_sk_a1">>,
               <<"Bearer", RandomToken>>, <<"Bearer", LongToken>>,
               <<"Bearer", UnknownKey>>, <<"bearer", "midos_sk_a1">>,
               <<"Bearer", "midos_sk_a1">>, <<"midos_sk_a1">>}}

ResolveList == \E h \in ResolveHeaders : OnListTools(h)

NextResolve == ResolveList \/ GateGenerate \/ GateRevoke \/ GateTick

SpecResolve == Init /\ [][NextResolve]_vars

\* ---- the vector store ----

StoreAdd == \E t \in Texts, ok \in BOOLEAN : Add(t, "a.md", ok)

\* the searches of the store's specification use the modes that embed the query
StoreModes == Modes \ {"keyword"}

StoreSearch ==
    \E q \in Queries, m \in StoreModes, e \in BOOLEAN, a \in BOOLEAN, f \in BOOLEAN :
        Search(q, m, e, a, f)

StoreRescoreCreate == \E ok \in BOOLEAN : RescoreCreate(ok)

StoreClock == StoreTick(QUERY_CACHE_TTL)

NextStore ==
    \/ StoreAdd
    \/ StoreSearch
    \/ Count
    \/ RescoreRead
    \/ RescoreDrop
    \/ StoreRescoreCreate
    \/ StoreClock

SpecStore == Init /\ [][NextStore]_vars

\* ---- the chunks of the store under refresh, archive and rescore ----

\* the files the chunks come from
Sources == {"a.md", "b.md"}

\* prefixes of one chunk, of every chunk, of no chunk
Prefixes == {"al", "beta", "", "gamma"}

\* each chunk is stored once
ChunksAdd == \E t \in Texts \ added, source \in Sources, ok \in BOOLEAN : Add(t, source, ok)

ChunksRefresh == \E text_prefix \in Prefixes : RefreshChunk(text_prefix)

ChunksArchive ==
    \E text_prefix \in Prefixes, log_ok \in BOOLEAN : ArchiveChunk(text_prefix, log_ok)

NextChunks ==
    \/ ChunksAdd
    \/ ChunksRefresh
    \/ ChunksArchive
    \/ RescoreRead
    \/ RescoreDrop
    \/ StoreRescoreCreate

SpecChunks == Init /\ [][NextChunks]_vars

\* ---- get_query_embedding ----

EmbedQueries == {"docker", "vector search", "memory"}

QueryEmbed == \E query \in EmbedQueries, ok \in BOOLEAN : GetQueryEmbedding(query, ok)

\* the seconds the clock is followed one by one, before it jumps by the TTL
QuerySeconds == 3

QuerySecond == now < QuerySeconds /\ QueryTick(1)

QueryExpire == QueryTick(QUERY_EMBEDDING_CACHE_TTL)

NextQuery == QueryEmbed \/ QuerySecond \/ QueryExpire

SpecQuery == Init /\ [][NextQuery]_vars

\* ---- the circuit breaker ----

InitBreaker ==
    GateInit /\ StoreInit /\ EmbedInit /\ KeyOpsInit /\ ToolsInit /\ ShakeIdle
        /\ NamesIdle /\ ChunksInit /\ QueryInit /\ BreakerInit /\ TwinInit

BreakerFailure == \E mission_id \in Missions : RecordFailure(mission_id)

BreakerSuccess == \E mission_id \in Missions : RecordSuccess(mission_id)

NextBreaker == BreakerFailure \/ BreakerSuccess

SpecBreaker == InitBreaker /\ [][NextBreaker]_vars


\* ---- two VectorStore objects on two tables ----

TwinAdd == \E n \in TableNames, t \in Texts, ok \in BOOLEAN : AddTo(n, t, ok)

TwinSearch ==
    \E n \in TableNames, q \in Queries, m \in StoreModes,
       e \in BOOLEAN, a \in BOOLEAN, f \in BOOLEAN :
        SearchOn(n, q, m, e, a, f)

TwinClock == TwinTick(QUERY_CACHE_TTL)

NextTwin == TwinAdd \/ TwinSearch \/ TwinClock

SpecTwin == Init /\ [][NextTwin]_vars

\* ---- get_embeddings_batch ----

\* the texts lists of the calls: every list of up to MaxTexts texts
EmbedInputs == UNION {[1..n -> EmbedTexts] : n \in 0..MaxTexts}

EmbedStart == \E texts \in EmbedInputs, client_ok \in BOOLEAN : EmbedCall(texts, client_ok)

EmbedFirst == \E b \in DOMAIN embed.futures, ok \in BOOLEAN : EmbedBatch(b, ok)

EmbedRetry == \E b \in DOMAIN embed.futures, ok \in BOOLEAN : EmbedBatchRetry(b, ok)

NextEmbed == EmbedStart \/ EmbedFirst \/ EmbedRetry \/ EmbedCollect

SpecEmbed == Init /\ [][NextEmbed]_vars

(***************************************************************************)
(* Claims                                                                  *)
(***************************************************************************)

\* the latest request was a tools/call that reached the quota check
QuotaChecked == last.op = "call" /\ last.outcome \in {"handler", "rate_limited"}

\* a request without authentication from a non-local source
Unauthenticated(h) == h.authorization = <<>> /\ ~IsLocalhost(h)

\* C1: a tools/call from a non-local source that presents 'Bearer k' after
\* revoke_key(k) has returned True is rejected with the 'Invalid or revoked
\* API key' error, whatever the tool and however soon after the revoke
C1_RevokedKeyRejected ==
    (last.op = "call" /\ last.after_revoke /\ ~IsLocalhost(last.h))
        => last.outcome = "invalid_key"

C4_ProToolsGated ==
    (last.op = "call" /\ Unauthenticated(last.h)
        /\ last.tool \in PRO_TOOLS \cup ADMIN_TOOLS)
        => last.outcome # "handler"

\* C5: a tools/call without authentication that names a community tool
\* reaches its handler unless the caller's monthly quota is exhausted
C5_CommunityToolsAdmitted ==
    (last.op = "call" /\ Unauthenticated(last.h) /\ last.tool \in COMMUNITY_TOOLS)
        => last.outcome \in {"handler", "rate_limited"}

\* C6: the handler of an admin tool never runs for a caller resolved to
\* free, dev, pro or team
C6_AdminToolsGated ==
    (last.op = "call" /\ last.tool \in ADMIN_TOOLS
        /\ last.tier \in {"free", "dev", "pro", "team"})
        => last.outcome # "handler"

\* the first present header among x-forwarded-for (its first entry),
\* x-real-ip and host (its name)
EffectiveSource(h) ==
    IF h.xff # <<>> THEN Head(h.xff)
    ELSE IF h.real_ip # "" THEN h.real_ip
    ELSE IF h.host # <<>> THEN Head(h.host)
    ELSE ""

\* C7: a request gets the localhost bypass (tier = pro, key = none) if and
\* only if its effective source is 127.0.0.1, ::1 or localhost
C7_BypassIffEffectiveSourceLocal ==
    last.op # "none" =>
        ((last.tier = "pro" /\ last.key = None)
            <=> EffectiveSource(last.h) \in local_addrs)

\* an Authorization header of the form 'Bearer midos_sk_<token>'
WellFormedBearer(auth) ==
    Len(auth) = 2 /\ Lower(auth[1]) = "bearer" /\ StartsWithMidosSk(auth[2])

\* C8: for a non-local request an Authorization header that is not of the
\* form 'Bearer midos_sk_<token>', or whose token has 128 characters or
\* more, resolves to tier = free with key = none
C8_MalformedOrLongIsFree ==
    (last.op # "none" /\ ~IsLocalhost(last.h)
        /\ (~WellFormedBearer(last.h.authorization)
            \/ TokenLen(last.h.authorization[2]) >= 128))
        => (last.tier = "free" /\ last.key = None)

\* the texts of a result list
ResultTexts(results) == {results[i] : i \in 1..Len(results)}

\* C9: a search for a chunk's text, in vector or hybrid mode, after add
\* has returned success for that chunk returns the chunk (stated for a search
\* that finds the table in place and whose two legs answer)
C9_AddThenSearchFinds ==
    (found.op = "search" /\ found.mode \in {"vector", "hybrid"}
        /\ found.known /\ found.healthy /\ found.seen # "missing")
        => found.query \in ResultTexts(found.results)

\* C10: a search or count that runs while batch_rescore_decay rewrites the
\* table never finds the table missing or empty
C10_RewriteAtomic ==
    (found.op \in {"search", "count"} /\ found.rescoring)
        => found.seen # "missing"

\* a search in hybrid mode that went to the table (no cache hit, table there)
HybridRun == found.op = "search" /\ found.mode = "hybrid" /\ found.seen = "table"

\* C11: in hybrid mode, when the vector leg fails (no query embedding, or the
\* ANN query raises) and the BM25 leg answers, search returns the BM25 leg's
\* results; when the BM25 leg fails and the vector leg answers, the vector
\* leg's results; when both fail, the empty list; and search never raises
C11_HybridDegrades ==
    HybridRun =>
        LET vec_ok == found.emb /\ found.ann
        IN  /\ ~found.raised
            /\ (~vec_ok /\ found.fts) => found.results = found.fts_leg
            /\ (vec_ok /\ ~found.fts) => found.results = found.vec_leg
            /\ (~vec_ok /\ ~found.fts) => found.results = <<>>

\* the batch (its start) that holds original index i of the finished call
BatchOf(i) ==
    LET k == CHOOSE k \in 1..Len(embed.uncached) : embed.uncached[k] = i
    IN  ((k - 1) \div BatchSize) * BatchSize

\* C12: get_embeddings_batch returns a list as long as texts whose entry i
\* is none or the embedding of texts[i]; entry i is none exactly when
\* texts[i] was not cached and either there is no provider client or the
\* batch holding it failed twice, whatever the order the batches finish in
C12_BatchOrderPreserved ==
    embed.pc = "done" =>
        /\ Len(embed.results) = Len(embed.texts)
        /\ \A i \in 1..Len(embed.texts) :
              /\ embed.results[i] \in {NoEmbedding, Embedding(embed.texts[i])}
              /\ (embed.results[i] = NoEmbedding) <=>
                     /\ embed.texts[i] \notin embed.cache0
                     /\ (~embed.client \/ BatchOf(i) \in embed.failed)

\* C12 witness: a call of four texts with one cached and two batches, the
\* first of which failed twice while the second was embedded
C12_Witness ==
    /\ embed.pc = "done"
    /\ Len(embed.texts) = 4
    /\ embed.texts[1] \in embed.cache0
    /\ embed.failed = {0}
    /\ embed.results[2] = NoEmbedding /\ embed.results[3] = NoEmbedding
    /\ embed.results[4] = Embedding(embed.texts[4])
    /\ embed.results[1] = Embedding(embed.texts[1])

\* C13: a tools/call during which the usage flush fails (usage.json cannot
\* be written) still gets its result from check_and_increment and reaches
\* the handler
C13_FlushFailureSwallowed ==
    (last.op = "call" /\ last.flush_failed) => last.outcome = "handler"

\* the count the ledger holds for an identifier in the running month: the
\* in-memory counter, or the entry of usage.json it would be loaded from
LedgerCount(id) ==
    LET mem == UsageMemForMonth(usage_mem, usage_month, month)
    IN  IF id \in DOMAIN mem THEN mem[id] ELSE GetUsageCount(usage_file, id, month)

\* C14: within a month the count the ledger holds for an identifier is
\* never below a count check_and_increment returned for it earlier in the
\* month, across calls, flushes and restarts
C14_CountNeverDecreases ==
    \A id \in DOMAIN hist : LedgerCount(id) >= hist[id].ret

\* C15: under every interleaving of generate_key and revoke_key calls, a
\* key that generate_key returned is in keys.json, and a key for which
\* revoke_key returned True is not active
C15_KeysNeverLostNorRevived ==
    /\ \A k \in generated : k \in DOMAIN keys_file
    /\ \A k \in revoked : k \in DOMAIN keys_file => ~keys_file[k].active

\* a name with ".." or a path separator in it
TraversalName(name) == Len(name) > 1 \/ \E i \in 1..Len(name) : name[i] = ".."

\* C16: for a caller without authentication, get_skill on an existing skill
\* returns the skill's text cut short (total length below 800) and ending
\* with an upgrade notice, whatever the length of the skill file
C16_SkillTruncatedForAnonymous ==
    (reply.tool = "get_skill" /\ last.h.authorization = <<>>
        /\ ResolveSkill(reply.name) \in SkillFiles)
        => (reply.kind = "content" /\ reply.len < 800 /\ reply.upgrade)

\* C17: for a name that contains ".." or a path separator, get_skill's
\* reply holds neither the content of a file outside the skills directory
\* nor the requested name
C17_NoTraversal ==
    (reply.tool = "get_skill" /\ last.outcome = "handler"
        /\ TraversalName(reply.name))
        => /\ reply.kind # "content" \/ reply.file \in SkillFiles
           /\ ~reply.echoed

\* the validation of research_youtube as the specification words it
UrlPassesValidation(url) ==
    /\ url.len > 0 /\ url.len <= 2048
    /\ Lower(url.scheme) \in {"http", "https"}
    /\ Lower(url.host) \in {"youtube.com", "www.youtube.com", "youtu.be", "m.youtube.com"}

\* C18: a research_youtube call that reaches its handler writes a command
\* file to the inbox if and only if the url passes validation, the file then
\* holds the url, and a rejected url yields an error and leaves the inbox
\* as it was; a call the gate rejects writes nothing
C18_WritesIffValid ==
    reply.tool = "research_youtube" =>
        /\ last.outcome = "handler" => (reply.written <=> UrlPassesValidation(reply.url))
        /\ last.outcome # "handler" => (~reply.written /\ reply.inbox_same)
        /\ reply.written =>
              /\ reply.kind = "queued"
              /\ reply.second \in DOMAIN inbox /\ inbox[reply.second] = reply.url
        /\ ~reply.written =>
              /\ reply.inbox_same
              /\ reply.kind \in {"invalid_url", "invalid_scheme", "invalid_host",
                                  "requires_key", "rate_limited", "invalid_key"}

\* C18 witness: a url on a foreign host was rejected with the host error after
\* an earlier call had queued a command, and the inbox still holds that one
\* command only
C18_Witness ==
    /\ reply.tool = "research_youtube" /\ last.outcome = "handler"
    /\ reply.kind = "invalid_host" /\ reply.url.host = "evil.example.com"
    /\ reply.inbox_same
    /\ Cardinality(DOMAIN inbox) = 1

\* the tools that a rendered handshake lists, in its table and below it
ToolsListed == shake.rendered.top_tools \o shake.rendered.more_tools

\* C19: the rendered handshake lists at most 3 tools, 2 skills, 1 chunk,
\* 3 guardrails and 2 tips when the tier of the context budget is small, and
\* at most 5 tools, 5 skills, 2 chunks, every guardrail and 5 tips when it is
\* medium
C19_SectionsSizedByTier ==
    shake.stage = "rendered" =>
        LET r == shake.rendered
            tier == shake.config.context_budget.tier
        IN  /\ tier = "small" =>
                /\ Len(ToolsListed) <= 3
                /\ Len(r.skills) <= 2
                /\ Len(r.chunks) <= 1
                /\ Len(r.guardrails) <= 3
                /\ Len(r.tips) <= 2
            /\ tier = "medium" =>
                /\ Len(ToolsListed) <= 5
                /\ Len(r.skills) <= 5
                /\ Len(r.chunks) <= 2
                /\ r.guardrails = shake.config.guardrails
                /\ Len(r.tips) <= 5

\* the windows of a handshake: the declared one, and the resolved model's
\* and client's when the name resolved
DeclaredWindows ==
    {shake_in.profile.context_window}
        \cup (IF shake.config.model_spec # NoModel
              THEN {shake.config.model_spec.context_window} ELSE {})
        \cup (IF shake.config.client_spec # NoClient
              THEN {shake.config.client_spec.max_context} ELSE {})

\* the budget that the specification words, over the windows that count
BudgetOver(windows) ==
    LET effective == IF windows = {} THEN 128000
                     ELSE IF SetMin(windows) > 10000000 THEN 10000000
                     ELSE SetMin(windows)
    IN  [effective_window |-> effective,
         tier |-> IF effective <= 32000 THEN "small"
                  ELSE IF effective <= 128000 THEN "medium" ELSE "large"]

\* C20 as stated: the effective context is the minimum of the non-zero
\* windows, 128000 when there is none and at most 10000000, and the tier is
\* small up to 32000, medium up to 128000 and large above
C20_MinOfNonZeroWindows ==
    shake.stage # "called" =>
        shake.config.context_budget = BudgetOver({w \in DeclaredWindows : w # 0})

\* C20, amended: the effective context is the minimum of the positive
\* windows (a negative declared window does not count), 128000 when there is
\* none and at most 10000000, and the tier is small up to 32000, medium up
\* to 128000 and large above
C20_MinOfPositiveWindows ==
    shake.stage # "called" =>
        /\ shake.config.context_budget = BudgetOver({w \in DeclaredWindows : w > 0})
        /\ shake.config.context_budget.effective_window <= 10000000

\* a handshake whose three windows differ and whose declared window is the
\* least, just above the small tier
C20_Witness ==
    /\ shake.stage = "config"
    /\ shake_in.profile.context_window = 32001
    /\ shake.config.model_spec # NoModel
    /\ shake.config.model_spec.context_window = 200000
    /\ shake.config.client_spec # NoClient
    /\ shake.config.client_spec.max_context = 128000
    /\ shake.config.context_budget = [effective_window |-> 32001, tier |-> "medium"]

RefreshedTwice == chunk_op.op = "refresh" /\ chunk_op.streak = 2 /\ chunk_op.text \in added

\* C22: for a chunk stored through add, two refresh_chunk calls with the same
\* matching prefix both return (neither raises) and leave the chunk's
\* access_count exactly 2 higher than before the first call
C22_RefreshTwiceAddsTwo ==
    RefreshedTwice => chunk_op.returned /\ chunk_op.count = chunk_op.base + 2

\* the texts of the chunks the table holds
StoredTexts == IF table.exists THEN {table.rows[i].text : i \in 1..Len(table.rows)} ELSE {}

\* C24: a chunk stored by a successful add stays in the table under every
\* interleaving of add, refresh_chunk, archive_chunk and batch_rescore_decay,
\* a failing rewrite included (stated for the times no rewrite is under way)
C24_ChunksNeverDestroyed ==
    rescore.pc = "idle" => added \subseteq StoredTexts

\* C29: a chunk whose decay_score archive_chunk has set to -1.0 keeps the
\* sentinel while it is in the table, whatever is called later
C29_ArchivedStaysArchived ==
    \A i \in 1..Len(table.rows) :
        table.rows[i].text \in archived => table.rows[i].decay = "archived"

\* the latest get_query_embedding call evicted an entry to admit its query
Evicted == query_embedding.evicted # <<>>

\* the texts the cache held when the latest call evicted, but for the evicted
KeptOver ==
    {query_embedding.before[i].text : i \in 1..Len(query_embedding.before)}
        \ {query_embedding.evicted}

\* C23: the query-embedding cache never holds more entries than its
\* capacity, and the entry evicted to admit a new query was not taken or
\* served by the cache more recently than an entry that stays
C23_LruEviction ==
    /\ Len(query_embedding_cache) <= QueryEmbeddingCacheMax
    /\ Evicted =>
          \A text \in KeptOver \cap DOMAIN served :
              served[query_embedding.evicted] <= served[text]

\* the latest request was a tools/call from a non-local source with a header
\* 'Bearer midos_sk_...' whose key the key store does not hold, or holds
\* with active = false since a revoke_key that came before the call
PresentedDeadKey ==
    /\ last.op = "call" /\ ~IsLocalhost(last.h)
    /\ WellFormedBearer(last.h.authorization)
    /\ (last.after_revoke \/ PresentedKey(last.h) \notin DOMAIN keys_file)

\* C25: such a call is rejected with 'Invalid or revoked API key', whatever
\* the tool, and is not counted against any identifier
C25_DeadKeyRejected ==
    PresentedDeadKey => (last.outcome = "invalid_key" /\ last.nth = 0)

\* C27: a caller whose resolved tier is free, without a key or with a key
\* issued with tier free, never reaches the handler of a tool outside
\* FREE_TOOLS
C27_FreeTierKeptToFreeTools ==
    (last.op = "call" /\ last.tier = "free" /\ last.tool \notin FREE_TOOLS)
        => last.outcome # "handler"

\* the mission of the latest call is in blocked_missions
NowBlocked == recorded.mission \in SeqToSet(blocked_missions)

\* C26: record_failure(m) returns True, and m enters blocked_missions,
\* exactly when it is the third failure recorded for m with no
\* record_success(m) between (stated for a mission not blocked before)
C26_BlockedOnThirdFailure ==
    (recorded.op = "failure" /\ ~recorded.was_blocked) =>
        /\ recorded.returned <=> recorded.nth = MAX_CONSECUTIVE_FAILURES
        /\ recorded.returned => NowBlocked

\* C26, corrected: record_failure(m) returns True exactly when it is the
\* third failure recorded for m since the latest of record_success(m), a
\* block of m and a Phoenix reset; m is then in blocked_missions unless the
\* block made PHOENIX_THRESHOLD blocked missions and Phoenix emptied the
\* list; record_success(m) leaves m without a failure count
C26_BlockedOnThirdSinceReset ==
    /\ recorded.op = "failure" =>
          /\ recorded.returned <=> recorded.run = MAX_CONSECUTIVE_FAILURES
          /\ recorded.returned => (NowBlocked \/ recorded.phoenix)
          /\ recorded.phoenix => blocked_missions = <<>>
    /\ recorded.op = "success" => recorded.mission \notin DOMAIN mission_failures

\* the third failure in a row of a mission returned True and blocked it
C26_Witness ==
    /\ recorded.op = "failure" /\ recorded.returned
    /\ recorded.nth = MAX_CONSECUTIVE_FAILURES /\ recorded.run = MAX_CONSECUTIVE_FAILURES
    /\ NowBlocked /\ ~recorded.phoenix /\ ~recorded.was_blocked

\* C28: the query-result cache is private to its table: a search on the
\* VectorStore of one table never returns results that a search with the same
\* (query, top_k, mode, rerank, alpha) on another table computed and cached
C28_QueryCachePrivateToTable ==
    (answered.seen = "cache") => (answered.by = answered.table)

\* a step in which a research_youtube call returned "YouTube research queued"
QueuedStep ==
    /\ reply'.tool = "research_youtube" /\ reply'.kind = "queued"
    /\ clock' = clock

\* C30: every research_youtube call that returns "YouTube research queued"
\* leaves its own command file in the inbox: each accepted call, also one in
\* the second of an earlier accepted call, adds one file to the inbox and
\* leaves every command already there as it was
C30_EveryQueuedCommandKept ==
    [][QueuedStep =>
          /\ Cardinality(DOMAIN inbox') = Cardinality(DOMAIN inbox) + 1
          /\ \A f \in DOMAIN inbox : f \in DOMAIN inbox' /\ inbox'[f] = inbox[f]]_vars

====
